---- MODULE Spec2Model ----
(***************************************************************************)
(* The cpufreq core (drivers/cpufreq/cpufreq.c): the CPU -> policy         *)
(* registry, the per-CPU policy rwsem, the governor events, the policy-set *)
(* protocol, CPU hotplug add/remove with domain merge, and the frequency   *)
(* transition notifications.  Every thread of control has a position (pc)  *)
(* and locals; an action is one handler segment between two points where   *)
(* the thread can block or be preempted with shared state exposed.         *)
(*                                                                         *)
(* Modelled build: CONFIG_SMP, CONFIG_HOTPLUG_CPU,                         *)
(* CONFIG_CPU_FREQ_GOV_PERFORMANCE and CONFIG_MULTI_CPU_POLICY_LIMIT set,  *)
(* CONFIG_UNI_CPU_POLICY_LIMIT and CONFIG_LGE_LOW_BATT_LIMIT not set; the  *)
(* platform driver is a ->target driver with ->get, ->exit and ->verify.   *)
(***************************************************************************)
EXTENDS Integers, Sequences, FiniteSets, TLC

\* ------------------------------------------------------------------ bounds
NCpus == 3
MaxFreq == 4
HwMinFreq == 1

\* --------------------------------------------------------------- constants
NULL == 0
NoCpu == -1

CPUS == 0 .. (NCpus - 1)
\* a policy's address is named after the CPU it was allocated for: two
\* policies allocated for the same CPU are never alive together
PIDS == 1 .. NCpus
AddressFor(cpu) == cpu + 1
Freqs == 0 .. MaxFreq
HwMaxFreq == MaxFreq - 1
HwFreqs == HwMinFreq .. HwMaxFreq

Threads == {"hp", "u1", "u2", "kw"}
NoThread == "nobody"

Governors == {"performance", "powersave", "ondemand"}
NoGov == "none"
CPUFREQ_DEFAULT_GOVERNOR == "performance"
FallbackGovernor == "performance"

Drivers == {"drv_shared", "drv_pair"}
NoDriver == "none"

Min2(a, b) == IF a < b THEN a ELSE b
Max2(a, b) == IF a > b THEN a ELSE b
MinOf(S) == CHOOSE x \in S : \A y \in S : x <= y

\* ------------------------------------------------- the platform driver
\* policy->cpus as ->init reports it: the CPUs that share cpu's clock.
DriverCpus(drv, cpu) ==
    IF drv = "drv_shared" THEN CPUS
    ELSE IF cpu < 2 THEN {c \in CPUS : c < 2} ELSE {cpu}

\* cpuinfo.transition_latency as ->init reports it.
DriverLatency(drv) == IF drv = "drv_pair" THEN 2 ELSE 0

\* governor->max_transition_latency (0: no restriction).
MaxTransitionLatency(g) == IF g = "ondemand" THEN 1 ELSE 0

\* The ->verify callback (cpufreq_verify_within_limits against cpuinfo).
DriverVerify(c, ci) ==
    LET mn1 == IF c.min < ci.min_freq THEN ci.min_freq ELSE c.min
        mx1 == IF c.max < ci.min_freq THEN ci.min_freq ELSE c.max
        mn2 == IF mn1 > ci.max_freq THEN ci.max_freq ELSE mn1
        mx2 == IF mx1 > ci.max_freq THEN ci.max_freq ELSE mx1
        mn3 == IF mn2 > mx2 THEN mx2 ELSE mn2
    IN  [c EXCEPT !.min = mn3, !.max = mx2]

\* A policy notifier on CPUFREQ_ADJUST / CPUFREQ_INCOMPATIBLE capping the
\* candidate at cap (NoCpu: no observer changes it).
NotifierAdjust(c, cap) ==
    IF cap < 0 THEN c
    ELSE [c EXCEPT !.min = Min2(c.min, cap), !.max = Min2(c.max, cap)]

\* ------------------------------------------------------------------ state
VARIABLES
    cpu_online_mask,      \* the online CPUs
    cpufreq_driver,       \* the registered driver, or NoDriver
    hotcpu_notifier,      \* cpufreq_cpu_notifier is registered
    cpufreq_cpu_data,     \* per-CPU policy pointer (NULL: unmapped)
    cpufreq_policy_cpu,   \* per-CPU index of the rwsem to take
    cpufreq_policy_save,  \* per-CPU saved governor / min / max
    cpu_policy_rwsem,     \* per-CPU rwsem: writer and readers
    pol,                  \* the policy objects, by address
    pm_qos,               \* PM_QOS_CPU_FREQ_MIN / _MAX
    hw_freq,              \* what ->get(cpu) returns
    th,                   \* per-thread position and locals
    errs,                 \* faults the kernel would oops / warn / corrupt on
    tlog,                 \* the transition notifications delivered so far
    intent,               \* last completed Remove: cpu, governor, user bounds
    added,                \* CPUs whose Add succeeded and that were not removed
    gov_fallback          \* gov of __cpufreq_governor: the build's fallback, or NoGov

vars == << cpu_online_mask, cpufreq_driver, hotcpu_notifier, cpufreq_cpu_data,
           cpufreq_policy_cpu, cpufreq_policy_save, cpu_policy_rwsem, pol,
           pm_qos, hw_freq, th, errs, tlog, intent, added, gov_fallback >>

\* struct cpufreq_policy after kzalloc
NoPolicy ==
    [st |-> "none", cpu |-> NoCpu, cpus |-> {}, related_cpus |-> {},
     cpuinfo |-> [min_freq |-> 0, max_freq |-> 0, transition_latency |-> 0],
     min |-> 0, max |-> 0, cur |-> 0, governor |-> NoGov,
     user_policy |-> [min |-> 0, max |-> 0, governor |-> NoGov],
     kobj |-> 0, kobj_unregister |-> FALSE, update |-> FALSE,
     running |-> {}, published |-> FALSE]

\* a local struct cpufreq_policy (new_policy / policy on a caller's stack)
NoCand == [min |-> 0, max |-> 0, governor |-> NoGov, umin |-> 0, umax |-> 0]

\* the record of the governor switch of a thread's last __cpufreq_set_policy:
\* the governor it found installed, whether that one was running, and the
\* governors whose START failed
NoSwitch == [from |-> NoGov, was_running |-> FALSE, failed |-> {}]

NoIntent == [st |-> "none", cpu |-> NoCpu, governor |-> NoGov, min |-> 0,
             max |-> 0]

Idle ==
    [pc |-> "idle", op |-> "none", stk |-> << >>,
     arg |-> NoCpu, val |-> 0, attr |-> "none", gov |-> NoGov,
     cpu |-> NoCpu, policy |-> NULL, data |-> NULL, managed |-> NULL, js |-> {},
     new_policy |-> NoCand, pmin |-> 0, pmax |-> 0, old_gov |-> NoGov,
     lkcpu |-> NoCpu, lkmode |-> "none", lkpc |-> "none",
     policy_cpu |-> NoCpu, lkret |-> 0,
     ret |-> "OK", refs |-> << >>, seen |-> 0, limited_cpu_freq |-> 0,
     switch |-> NoSwitch, init_ok |-> FALSE, exit_calls |-> 0,
     atomic_calls |-> {}]

Init ==
    /\ cpu_online_mask \in {S \in SUBSET CPUS : 0 \in S}
    /\ cpufreq_driver = NoDriver
    /\ hotcpu_notifier = FALSE
    /\ cpufreq_cpu_data = [c \in CPUS |-> NULL]
    /\ cpufreq_policy_cpu = [c \in CPUS |-> NoCpu]
    /\ cpufreq_policy_save = [c \in CPUS |-> [gov |-> NoGov, min |-> 0, max |-> 0]]
    /\ cpu_policy_rwsem = [c \in CPUS |-> [w |-> NoThread, r |-> {}]]
    /\ pol = [p \in PIDS |-> NoPolicy]
    /\ pm_qos = [min |-> 0, max |-> MaxFreq]
    /\ hw_freq = [c \in CPUS |-> HwMaxFreq]
    /\ th = [t \in Threads |-> Idle]
    /\ errs = {}
    /\ tlog = << >>
    /\ intent = NoIntent
    /\ added = {}
    /\ gov_fallback \in {FallbackGovernor, NoGov}

\* ------------------------------------------------------- calls and returns
\* A nested call saves the caller's locals; the return restores them and
\* leaves the callee's result in ret.
Push(l, retpc) ==
    [l EXCEPT !.stk = Append(@, [pc |-> retpc, cpu |-> l.cpu, policy |-> l.policy,
                                  data |-> l.data, managed |-> l.managed,
                                  js |-> l.js])]

Return(l, r) ==
    LET f == l.stk[Len(l.stk)]
    IN  [l EXCEPT !.pc = f.pc, !.cpu = f.cpu, !.policy = f.policy,
                  !.data = f.data, !.managed = f.managed, !.js = f.js,
                  !.stk = SubSeq(l.stk, 1, Len(l.stk) - 1), !.ret = r]

Begin(op, entry) ==
    [Idle EXCEPT !.pc = entry, !.op = op,
                 !.stk = << [pc |-> "done", cpu |-> NoCpu, policy |-> NULL,
                             data |-> NULL, managed |-> NULL, js |-> {}] >>]

\* ------------------------------------------------------------- kobject
\* kobject_put: the last put runs cpufreq_sysfs_release, which completes
\* kobj_unregister.
kobject_put(p) ==
    IF p.kobj = 1 THEN [p EXCEPT !.kobj = 0, !.kobj_unregister = TRUE]
    ELSE IF p.kobj = 0 THEN p
    ELSE [p EXCEPT !.kobj = @ - 1]

\* a get that takes no reference
kobject_get_NoCount(p) == p

kobject_get(p) == [p EXCEPT !.kobj = @ + 1]

\* what a bad pointer or count costs: recorded, the run goes on
PutErrs(p) == IF p.kobj = 0 THEN {"kref_underflow"} ELSE {}

\* __cpufreq_cpu_get(cpu, sysfs) under cpufreq_driver_lock: the policy bound
\* to cpu, or NULL.
cpufreq_cpu_get_result(cpu) ==
    IF cpu \notin CPUS \/ cpufreq_driver = NoDriver THEN NULL
    ELSE cpufreq_cpu_data[cpu]

\* somebody other than thread t still uses policy p: a CPU is bound to it,
\* a thread holds a pointer to it, or its work item is queued
Referenced(p, t) ==
    \/ \E c \in CPUS : cpufreq_cpu_data[c] = p
    \/ \E u \in Threads \ {t} :
          \/ th[u].policy = p \/ th[u].data = p \/ th[u].managed = p
          \/ \E i \in 1 .. Len(th[u].refs) : th[u].refs[i] = p
          \/ \E i \in 1 .. Len(th[u].stk) :
                \/ th[u].stk[i].policy = p \/ th[u].stk[i].data = p
                \/ th[u].stk[i].managed = p
    \/ pol[p].update

\* kfree(policy) by thread t: the memory returns to the allocator; when it is
\* still in use elsewhere it stays marked as freed
kfree(p, t) ==
    IF Referenced(p, t) THEN [NoPolicy EXCEPT !.st = "freed",
                                              !.update = pol[p].update]
    ELSE NoPolicy

FreeErrs(p, t) == IF Referenced(p, t) THEN {"use_after_free"} ELSE {}

\* ------------------------------------------------------ the policy rwsem
\* an unlock that leaves the rwsem taken
unlock_policy_rwsem_write_Kept(sems, pcpu_map, cpu) == sems

\* unlock_policy_rwsem_write(cpu): up_write on the rwsem cpu resolves to now.
unlock_policy_rwsem_write(sems, pcpu_map, cpu) ==
    [sems EXCEPT ![pcpu_map[cpu]].w = NoThread]

UnlockWriteErrs(sems, pcpu_map, t, cpu) ==
    IF sems[pcpu_map[cpu]].w = t THEN {} ELSE {"unlock_not_held"}

unlock_policy_rwsem_read(sems, pcpu_map, t, cpu) ==
    [sems EXCEPT ![pcpu_map[cpu]].r = @ \ {t}]

UnlockReadErrs(sems, pcpu_map, t, cpu) ==
    IF t \in sems[pcpu_map[cpu]].r THEN {} ELSE {"unlock_not_held"}

\* touching a policy that was freed, or through a NULL pointer
DerefErrs(p) ==
    IF p = NULL THEN {"null_deref"}
    ELSE IF pol[p].st # "live" THEN {"use_after_free"} ELSE {}

\* the frame of a step of thread t that changes only th
OnlyThread ==
    UNCHANGED << cpu_online_mask, cpufreq_driver, hotcpu_notifier,
                 cpufreq_cpu_data, cpufreq_policy_cpu, cpufreq_policy_save,
                 cpu_policy_rwsem, pol, pm_qos, hw_freq, errs, tlog, intent, added >>

\* the joining CPU bound to the policy it allocated for itself
JoinTarget_Provisional(managed, policy) == policy

\* the CPU -> policy binding the sibling join installs
JoinTarget(managed, policy) == managed

\* lock_policy_rwsem_read / _write (cpu): the caller continues at retpc
LockCall(l, mode, cpu, retpc) ==
    [l EXCEPT !.pc = "lock_resolve", !.lkmode = mode, !.lkcpu = cpu,
              !.lkpc = retpc]

\* policy_cpu = per_cpu(cpufreq_policy_cpu, cpu); BUG_ON(policy_cpu == -1)
lock_policy_rwsem_resolve(t) ==
    /\ th[t].pc = "lock_resolve"
    /\ LET l == th[t]
           policy_cpu == cpufreq_policy_cpu[l.lkcpu]
       IN  /\ th' = [th EXCEPT ![t] =
                       IF policy_cpu = NoCpu THEN [l EXCEPT !.pc = "oops"]
                       ELSE [l EXCEPT !.pc = "lock_down",
                                      !.policy_cpu = policy_cpu]]
           /\ errs' = IF policy_cpu = NoCpu THEN errs \cup {"BUG"} ELSE errs
    /\ UNCHANGED << cpu_online_mask, cpufreq_driver, hotcpu_notifier,
                    cpufreq_cpu_data, cpufreq_policy_cpu, cpufreq_policy_save,
                    cpu_policy_rwsem, pol, pm_qos, hw_freq, tlog, intent, added >>

\* a lock function without the cpu_online check
LockChecksOnline_Never == FALSE

\* whether lock_policy_rwsem checks cpu_online after down_##mode
LockChecksOnline == TRUE

\* down_##mode(sem); if (!cpu_online(cpu)) { up_##mode(sem); return -1; }
lock_policy_rwsem(t) ==
    /\ th[t].pc = "lock_down"
    /\ LET l == th[t]
           sem == cpu_policy_rwsem[l.policy_cpu]
           ok == (~LockChecksOnline) \/ l.lkcpu \in cpu_online_mask
       IN  /\ sem.w = NoThread
           /\ (l.lkmode = "write") => (sem.r = {})
           /\ cpu_policy_rwsem' =
                 IF ~ok THEN cpu_policy_rwsem
                 ELSE IF l.lkmode = "write"
                      THEN [cpu_policy_rwsem EXCEPT ![l.policy_cpu].w = t]
                      ELSE [cpu_policy_rwsem EXCEPT ![l.policy_cpu].r = @ \cup {t}]
           /\ th' = [th EXCEPT ![t] =
                       [l EXCEPT !.pc = l.lkpc, !.lkcpu = NoCpu,
                                 !.lkmode = "none", !.lkpc = "none",
                                 !.policy_cpu = NoCpu,
                                 !.lkret = IF ok THEN 0 ELSE NoCpu]]
    /\ UNCHANGED << cpu_online_mask, cpufreq_driver, hotcpu_notifier,
                    cpufreq_cpu_data, cpufreq_policy_cpu, cpufreq_policy_save,
                    pol, pm_qos, hw_freq, errs, tlog, intent, added >>

\* ------------------------------------------------------------- governors
\* the governors whose START callback fails at one point of a run
StartFailures == {{}} \cup {{g} : g \in Governors} \cup {Governors}

\* the caps a policy notifier may impose on a candidate (NoCpu: none)
NotifierCaps == {NoCpu, 0, HwMinFreq + 1}

\* a governor event that does not look at the transition latencies
cpufreq_governor_NoLatencyCheck(p, event, bad) ==
    LET g == p.governor
    IN  IF g = NoGov THEN [p |-> p, ret |-> "EFAULT"]
        ELSE IF event = "START"
        THEN IF g \in bad THEN [p |-> p, ret |-> "EINVAL"]
             ELSE [p |-> [p EXCEPT !.running = @ \cup {g}], ret |-> "OK"]
        ELSE IF event = "STOP"
        THEN [p |-> [p EXCEPT !.running = @ \ {g}], ret |-> "OK"]
        ELSE [p |-> p, ret |-> "OK"]

\* a governor callback that does not act on STOP
cpufreq_governor_StopIgnored(p, event, bad) ==
    LET g0 == p.governor
        g == IF MaxTransitionLatency(g0) # 0
                /\ p.cpuinfo.transition_latency > MaxTransitionLatency(g0)
             THEN gov_fallback ELSE g0
        p1 == [p EXCEPT !.governor = g]
    IN  IF g0 = NoGov THEN [p |-> p, ret |-> "EFAULT"]
        ELSE IF g = NoGov THEN [p |-> p, ret |-> "EINVAL"]
        ELSE IF event = "START"
        THEN IF g \in bad THEN [p |-> p1, ret |-> "EINVAL"]
             ELSE [p |-> [p1 EXCEPT !.running = @ \cup {g}], ret |-> "OK"]
        ELSE [p |-> p1, ret |-> "OK"]

\* __cpufreq_governor(policy, event); bad: the governors whose START fails.
cpufreq_governor(p, event, bad) ==
    LET g0 == p.governor
        g == IF MaxTransitionLatency(g0) # 0
                /\ p.cpuinfo.transition_latency > MaxTransitionLatency(g0)
             THEN gov_fallback ELSE g0
        p1 == [p EXCEPT !.governor = g]
    IN  IF g0 = NoGov THEN [p |-> p, ret |-> "EFAULT"]
        ELSE IF g = NoGov THEN [p |-> p, ret |-> "EINVAL"]
        ELSE IF event = "START"
        THEN IF g \in bad THEN [p |-> p1, ret |-> "EINVAL"]
             ELSE [p |-> [p1 EXCEPT !.running = @ \cup {g}], ret |-> "OK"]
        ELSE IF event = "STOP"
        THEN [p |-> [p1 EXCEPT !.running = @ \ {g}], ret |-> "OK"]
        ELSE [p |-> p1, ret |-> "OK"]

GovErrs(p) == IF p.governor = NoGov THEN {"null_deref"} ELSE {}

\* ------------------------------------------------- __cpufreq_set_policy
SetPolicyCall(l, data, cand, retpc) ==
    [Push(l, retpc) EXCEPT !.pc = "sp_begin", !.data = data,
                           !.new_policy = cand, !.switch = NoSwitch]

\* the bounds as requested, before any clamp
CommittedBounds_Requested(verified, requested) == requested

\* a commit placed before the clamp, the verifies and the notifiers
CommittedBounds_BeforeVerify(verified, requested) == requested

\* what the protocol commits as the live bounds
CommittedBounds(verified, requested) == verified

\* the candidate left with the clamped bounds
RestoredBounds_Clamped(c, pmin, pmax) == c

\* the candidate's bounds on exit (error_out)
RestoredBounds(c, pmin, pmax) == [c EXCEPT !.min = pmin, !.max = pmax]

\* return from __cpufreq_set_policy: the candidate carries the restored
\* bounds, the function's locals are gone
SetPolicyReturn(l, c, pmin, pmax, r) ==
    Return([l EXCEPT !.new_policy = RestoredBounds(c, pmin, pmax),
                     !.pmin = 0, !.pmax = 0, !.old_gov = NoGov], r)

\* no candidate conflicts with the user's bounds
BoundsConflict_Never(c1, d) == FALSE

\* a candidate that only reaches one of the user's bounds is a conflict too
BoundsConflict_Reaching(c1, d) ==
    c1.min >= d.user_policy.max \/ c1.max <= d.user_policy.min

\* the clamped candidate c1 lies outside the user's bounds of policy d
BoundsConflict(c1, d) ==
    c1.min > d.user_policy.max \/ c1.max < d.user_policy.min

\* steps 1-6: QoS clamp, conflict check, verify, observers, verify, commit
set_policy_begin(t, env) ==
    /\ th[t].pc = "sp_begin"
    /\ \E verify_fails \in env.verify, cap \in env.caps :
       LET l == th[t]
           d == pol[l.data]
           c == l.new_policy
           pmin == c.min
           pmax == c.max
           qmin == Min2(pm_qos.min, d.user_policy.max)
           qmax == Max2(pm_qos.max, d.user_policy.min)
           c1 == [c EXCEPT !.min = Max2(pmin, qmin), !.max = Min2(pmax, qmax)]
           conflict == BoundsConflict(c1, d)
           c2 == DriverVerify(c1, d.cpuinfo)
           c3 == NotifierAdjust(c2, cap)
           c4 == DriverVerify(c3, d.cpuinfo)
           live == CommittedBounds(c4, c)
           rejected == conflict \/ verify_fails
       IN  /\ pol' = IF rejected THEN pol
                     ELSE [pol EXCEPT ![l.data].min = live.min,
                                      ![l.data].max = live.max]
           /\ th' = [th EXCEPT ![t] =
                       IF rejected
                       THEN SetPolicyReturn(l, c1, pmin, pmax,
                                IF conflict THEN "EINVAL" ELSE "EDRIVER")
                       ELSE [l EXCEPT !.pc = "sp_gov", !.new_policy = c4,
                                      !.pmin = pmin, !.pmax = pmax]]
           /\ errs' = errs \cup DerefErrs(l.data)
    /\ UNCHANGED << cpu_online_mask, cpufreq_driver, hotcpu_notifier,
                    cpufreq_cpu_data, cpufreq_policy_cpu, cpufreq_policy_save,
                    cpu_policy_rwsem, pm_qos, hw_freq, tlog, intent, added >>

\* step 7, first half: no governor change -> LIMITS and out; otherwise STOP
\* the old governor and install the new one
set_policy_governor(t) ==
    /\ th[t].pc = "sp_gov"
    /\ LET l == th[t]
           d == pol[l.data]
           c == l.new_policy
           switch == c.governor # d.governor
           stopped == IF d.governor # NoGov
                      THEN cpufreq_governor(d, "STOP", {}).p ELSE d
           limits == cpufreq_governor(d, "LIMITS", {}).p
       IN  /\ pol' = [pol EXCEPT ![l.data] =
                        IF switch THEN [stopped EXCEPT !.governor = c.governor]
                        ELSE limits]
           /\ th' = [th EXCEPT ![t] =
                       IF switch
                       THEN [l EXCEPT !.pc = "sp_start", !.old_gov = d.governor,
                                      !.switch.from = d.governor,
                                      !.switch.was_running =
                                          d.governor \in d.running]
                       ELSE SetPolicyReturn(l, c, l.pmin, l.pmax, "OK")]
           /\ errs' = errs \cup DerefErrs(l.data)
                           \cup (IF switch THEN {} ELSE GovErrs(d))
    /\ UNCHANGED << cpu_online_mask, cpufreq_driver, hotcpu_notifier,
                    cpufreq_cpu_data, cpufreq_policy_cpu, cpufreq_policy_save,
                    cpu_policy_rwsem, pm_qos, hw_freq, tlog, intent, added >>

\* the governor whose START failed stays installed
RollbackGovernor_Failed(old_gov, failed) == failed

\* the governor the rollback reinstalls after a failed START
RollbackGovernor(old_gov, failed) == old_gov

\* an error only when the old governor could not be restarted either
StartFailureRet_OnlyFatal(restarted) == IF restarted THEN "OK" ELSE "EINVAL"

\* ret = -EINVAL after the failed START of the new governor, whatever the
\* restart of the old one gave
StartFailureRet(restarted) == "EINVAL"

\* step 7, second half: START the new governor; on failure reinstall and
\* START the old one; step 8: LIMITS; exit
set_policy_start(t, env) ==
    /\ th[t].pc = "sp_start"
    /\ \E bad \in env.start :
       LET l == th[t]
           d == pol[l.data]
           c == l.new_policy
           started == cpufreq_governor(d, "START", bad)
           failed == started.ret # "OK"
           rolled == IF l.old_gov # NoGov
                     THEN cpufreq_governor(
                              [started.p EXCEPT !.governor =
                                  RollbackGovernor(l.old_gov, started.p.governor)],
                              "START", bad).p
                     ELSE started.p
           limits == cpufreq_governor(started.p, "LIMITS", {}).p
           Failed == IF ~failed THEN {}
                     ELSE {started.p.governor}
                          \cup (IF l.old_gov # NoGov /\ rolled.governor \in bad
                                THEN {rolled.governor} ELSE {})
       IN  /\ pol' = [pol EXCEPT ![l.data] = IF failed THEN rolled ELSE limits]
           /\ th' = [th EXCEPT ![t] =
                       SetPolicyReturn([l EXCEPT !.switch.failed = Failed],
                                       c, l.pmin, l.pmax,
                                       IF failed
                                       THEN StartFailureRet(
                                                /\ l.old_gov # NoGov
                                                /\ rolled.governor \notin bad)
                                       ELSE "OK")]
           /\ errs' = errs \cup DerefErrs(l.data) \cup GovErrs(d)
    /\ UNCHANGED << cpu_online_mask, cpufreq_driver, hotcpu_notifier,
                    cpufreq_cpu_data, cpufreq_policy_cpu, cpufreq_policy_save,
                    cpu_policy_rwsem, pm_qos, hw_freq, tlog, intent, added >>

\* ------------------------------------------------------- cpufreq_add_dev
AddCall(l, cpu, retpc) ==
    [Push(l, retpc) EXCEPT !.init_ok = FALSE, !.exit_calls = 0,
                           !.pc = "add_begin", !.cpu = cpu, !.policy = NULL,
                           !.managed = NULL]

\* cpufreq_driver->init(policy)
DriverInit(p, drv, cpu) ==
    [p EXCEPT !.cpus = DriverCpus(drv, cpu),
              !.related_cpus = DriverCpus(drv, cpu),
              !.cpuinfo = [min_freq |-> HwMinFreq, max_freq |-> HwMaxFreq,
                           transition_latency |-> DriverLatency(drv)],
              !.min = HwMinFreq, !.max = HwMaxFreq, !.cur = hw_freq[cpu]]

\* the governor a new policy starts from: that of the first online CPU whose
\* policy lists cpu in related_cpus, else the default
InheritedGovernor(cpu) ==
    LET S == {s \in cpu_online_mask :
                 /\ cpufreq_cpu_data[s] # NULL
                 /\ pol[cpufreq_cpu_data[s]].governor # NoGov
                 /\ cpu \in pol[cpufreq_cpu_data[s]].related_cpus}
    IN  IF S = {} THEN CPUFREQ_DEFAULT_GOVERNOR
        ELSE pol[cpufreq_cpu_data[MinOf(S)]].governor

\* what cpufreq_add_dev_policy takes from cpufreq_policy_save
SavedFor(save) == save

\* cpufreq_add_dev_policy, the restore from cpufreq_policy_save[cpu]
RestoreSaved(p, save0) ==
    LET save == SavedFor(save0)
        p1 == IF save.gov \in Governors THEN [p EXCEPT !.governor = save.gov]
              ELSE p
        p2 == IF save.min # 0
              THEN [p1 EXCEPT !.min = save.min, !.user_policy.min = save.min]
              ELSE p1
    IN  IF save.max # 0
        THEN [p2 EXCEPT !.max = save.max, !.user_policy.max = save.max]
        ELSE p2

\* the CPUs cpufreq_add_dev_policy finds already managed
ManagedSiblings(cpus, cpu) ==
    {j \in cpus \ {cpu} : cpufreq_cpu_get_result(j) # NULL}

\* offline or already mapped: nothing to do; else allocate the policy, point
\* the CPU's rwsem index at itself and take the write lock
cpufreq_add_dev(t) ==
    /\ th[t].pc = "add_begin"
    /\ LET l == th[t]
           cpu == l.cpu
           skip == cpu \notin cpu_online_mask
                   \/ cpufreq_cpu_get_result(cpu) # NULL
           p == AddressFor(cpu)
       IN  /\ skip \/ pol[p].st = "none"
           /\ pol' = IF skip THEN pol
                     ELSE [pol EXCEPT ![p] =
                             [NoPolicy EXCEPT !.st = "live", !.cpu = cpu,
                                              !.cpus = {cpu}]]
           /\ cpufreq_policy_cpu' =
                 IF skip THEN cpufreq_policy_cpu
                 ELSE [cpufreq_policy_cpu EXCEPT ![cpu] = cpu]
           /\ th' = [th EXCEPT ![t] =
                       IF skip THEN Return(l, "OK")
                       ELSE LockCall([l EXCEPT !.policy = p], "write", cpu,
                                     "add_init")]
    /\ added' = IF th[t].cpu \in cpu_online_mask
                   /\ cpufreq_cpu_get_result(th[t].cpu) # NULL
                THEN added \cup {th[t].cpu} ELSE added
    /\ UNCHANGED << cpu_online_mask, cpufreq_driver, hotcpu_notifier,
                    cpufreq_cpu_data, cpufreq_policy_save, cpu_policy_rwsem,
                    pm_qos, hw_freq, errs, tlog, intent >>

\* whether cpufreq_add_dev_policy looks for an already managed sibling
AddSearchesManaged == TRUE

\* governor choice, ->init, restore of the saved snapshot, and the search
\* for a managed sibling (cpufreq_add_dev_policy up to the re-lock)
cpufreq_add_dev_policy(t, env) ==
    /\ th[t].pc = "add_init"
    /\ \E init_fails \in env.init :
       LET l == th[t]
           cpu == l.cpu
           p0 == [pol[l.policy] EXCEPT !.governor = InheritedGovernor(cpu)]
           p1 == DriverInit(p0, cpufreq_driver, cpu)
           p2 == [p1 EXCEPT !.cpus = @ \cap cpu_online_mask,
                            !.user_policy.min = p1.min,
                            !.user_policy.max = p1.max]
           p3 == RestoreSaved(p2, cpufreq_policy_save[cpu])
           Js == IF AddSearchesManaged THEN ManagedSiblings(p3.cpus, cpu)
                 ELSE {}
           m == cpufreq_cpu_data[MinOf(Js)]
           unlocked == unlock_policy_rwsem_write(cpu_policy_rwsem,
                                                 cpufreq_policy_cpu, cpu)
           uerr == UnlockWriteErrs(cpu_policy_rwsem, cpufreq_policy_cpu, t, cpu)
       IN  IF init_fails
           THEN /\ pol' = [pol EXCEPT ![l.policy] = kfree(l.policy, t)]
                /\ cpu_policy_rwsem' = unlocked
                /\ errs' = errs \cup uerr \cup FreeErrs(l.policy, t)
                /\ th' = [th EXCEPT ![t] = Return(l, "ENODEV")]
                /\ UNCHANGED cpufreq_policy_cpu
           ELSE IF Js # {}
           THEN /\ pol' = [pol EXCEPT ![l.policy] = p3,
                                      ![m] = kobject_get(pol[m])]
                /\ cpu_policy_rwsem' = unlocked
                /\ errs' = errs \cup uerr
                /\ cpufreq_policy_cpu' =
                      [cpufreq_policy_cpu EXCEPT ![cpu] = pol[m].cpu]
                /\ th' = [th EXCEPT ![t] =
                            LockCall([l EXCEPT !.managed = m,
                                               !.refs = Append(@, m),
                                               !.init_ok = TRUE],
                                     "write", cpu, "add_join")]
           ELSE /\ pol' = [pol EXCEPT ![l.policy] = p3]
                /\ th' = [th EXCEPT ![t] = [l EXCEPT !.pc = "add_interface",
                                                     !.init_ok = TRUE]]
                /\ UNCHANGED << cpu_policy_rwsem, errs, cpufreq_policy_cpu >>
    /\ UNCHANGED << cpu_online_mask, cpufreq_driver, hotcpu_notifier,
                    cpufreq_cpu_data, cpufreq_policy_save, pm_qos, hw_freq,
                    tlog, intent, added >>

\* drop the last occurrence of p from a thread's outstanding references
DropRef(refs, p) ==
    LET I == {i \in 1 .. Len(refs) : refs[i] = p}
        k == CHOOSE i \in I : \A j \in I : j <= i
    IN  IF I = {} THEN refs
        ELSE SubSeq(refs, 1, k - 1) \o SubSeq(refs, k + 1, Len(refs))

\* a join that carries the provisional policy's governor and user bounds
\* over into the managed policy
cpufreq_add_dev_join_Restored(t, env) ==
    /\ th[t].pc = "add_join"
    /\ \E linkfail \in env.link, bad \in env.start :
       LET l == th[t]
           cpu == l.cpu
           m == l.managed
           stopped == cpufreq_governor(pol[m], "STOP", {}).p
           merged == [stopped EXCEPT
                        !.cpus = pol[l.policy].cpus \cap cpu_online_mask,
                        !.governor = pol[l.policy].governor,
                        !.user_policy = pol[l.policy].user_policy]
           started == cpufreq_governor(merged, "START", bad).p
           limits == cpufreq_governor(started, "LIMITS", {}).p
           joined == IF linkfail THEN kobject_put(limits) ELSE limits
           busy == l.lkret < 0
       IN  /\ pol' = [pol EXCEPT
                        ![m] = IF busy THEN kobject_put(pol[m]) ELSE joined,
                        ![l.policy] = kfree(l.policy, t)]
           /\ cpufreq_cpu_data' =
                 IF busy THEN cpufreq_cpu_data
                 ELSE [cpufreq_cpu_data EXCEPT ![cpu] = JoinTarget(m, l.policy)]
           /\ added' = IF busy \/ linkfail THEN added ELSE added \cup {cpu}
           /\ cpu_policy_rwsem' =
                 unlock_policy_rwsem_write(cpu_policy_rwsem,
                                           cpufreq_policy_cpu, cpu)
           /\ errs' = errs \cup UnlockWriteErrs(cpu_policy_rwsem,
                                                cpufreq_policy_cpu, t, cpu)
                           \cup DerefErrs(m)
                           \cup (IF busy \/ linkfail THEN PutErrs(pol[m]) ELSE {})
                           \cup FreeErrs(l.policy, t)
           /\ th' = [th EXCEPT ![t] =
                       Return([l EXCEPT !.refs = DropRef(@, m),
                                        !.exit_calls = @ + 1],
                              IF busy THEN "EBUSY"
                              ELSE IF linkfail THEN "ENOMEM" ELSE "OK")]
    /\ UNCHANGED << cpu_online_mask, cpufreq_driver, hotcpu_notifier,
                    cpufreq_policy_cpu, cpufreq_policy_save, pm_qos, hw_freq,
                    tlog, intent >>

\* the sibling join (cpufreq_add_dev_policy after the re-lock) and the tail
\* of cpufreq_add_dev: the provisional policy is exited and freed
cpufreq_add_dev_join(t, env) ==
    /\ th[t].pc = "add_join"
    /\ \E linkfail \in env.link, bad \in env.start :
       LET l == th[t]
           cpu == l.cpu
           m == l.managed
           stopped == cpufreq_governor(pol[m], "STOP", {}).p
           merged == [stopped EXCEPT
                        !.cpus = pol[l.policy].cpus \cap cpu_online_mask]
           started == cpufreq_governor(merged, "START", bad).p
           limits == cpufreq_governor(started, "LIMITS", {}).p
           joined == IF linkfail THEN kobject_put(limits) ELSE limits
           busy == l.lkret < 0
       IN  /\ pol' = [pol EXCEPT
                        ![m] = IF busy THEN kobject_put(pol[m]) ELSE joined,
                        ![l.policy] = kfree(l.policy, t)]
           /\ cpufreq_cpu_data' =
                 IF busy THEN cpufreq_cpu_data
                 ELSE [cpufreq_cpu_data EXCEPT ![cpu] = JoinTarget(m, l.policy)]
           /\ added' = IF busy \/ linkfail THEN added ELSE added \cup {cpu}
           /\ cpu_policy_rwsem' =
                 unlock_policy_rwsem_write(cpu_policy_rwsem,
                                           cpufreq_policy_cpu, cpu)
           /\ errs' = errs \cup UnlockWriteErrs(cpu_policy_rwsem,
                                                cpufreq_policy_cpu, t, cpu)
                           \cup DerefErrs(m)
                           \cup (IF busy \/ linkfail THEN PutErrs(pol[m]) ELSE {})
                           \cup FreeErrs(l.policy, t)
           /\ th' = [th EXCEPT ![t] =
                       Return([l EXCEPT !.refs = DropRef(@, m),
                                        !.exit_calls = @ + 1],
                              IF busy THEN "EBUSY"
                              ELSE IF linkfail THEN "ENOMEM" ELSE "OK")]
    /\ UNCHANGED << cpu_online_mask, cpufreq_driver, hotcpu_notifier,
                    cpufreq_policy_cpu, cpufreq_policy_save, pm_qos, hw_freq,
                    tlog, intent >>

\* the local copy of a policy (memcpy / cpufreq_get_policy)
CandOf(p) ==
    [min |-> p.min, max |-> p.max, governor |-> p.governor,
     umin |-> p.user_policy.min, umax |-> p.user_policy.max]

\* per_cpu(cpufreq_cpu_data, j) = NULL for the CPUs in S
Unbind(data_map, S) == [c \in CPUS |-> IF c \in S THEN NULL ELSE data_map[c]]

\* cpufreq_add_dev_interface up to the call of __cpufreq_set_policy: kobject,
\* sysfs files, binding of every online CPU of the domain, sibling links
cpufreq_add_dev_interface(t, env) ==
    /\ th[t].pc = "add_interface"
    /\ \E fault \in env.sysfs :
       LET l == th[t]
           cpu == l.cpu
           p == pol[l.policy]
           sibs == p.cpus \ {cpu}
           online == p.cpus \cap cpu_online_mask
           linkfail == fault = "link" /\ (sibs \cap cpu_online_mask) # {}
           bound == [c \in CPUS |-> IF c \in online THEN l.policy
                                    ELSE cpufreq_cpu_data[c]]
           pcpu == [c \in CPUS |-> IF c \in online THEN p.cpu
                                   ELSE cpufreq_policy_cpu[c]]
       IN  IF fault = "kobj"
           THEN \* kobject_init_and_add failed: err_out_unregister puts the
                \* initial reference, the release completes the wait
                /\ pol' = [pol EXCEPT ![l.policy] = kfree(l.policy, t)]
                /\ cpufreq_cpu_data' = Unbind(cpufreq_cpu_data, p.cpus)
                /\ cpu_policy_rwsem' =
                      unlock_policy_rwsem_write(cpu_policy_rwsem,
                                                cpufreq_policy_cpu, cpu)
                /\ errs' = errs \cup UnlockWriteErrs(cpu_policy_rwsem,
                                                     cpufreq_policy_cpu, t, cpu)
                                \cup FreeErrs(l.policy, t)
                /\ th' = [th EXCEPT ![t] = Return(l, "ENOMEM")]
                /\ UNCHANGED cpufreq_policy_cpu
           ELSE IF fault = "file" \/ linkfail
           THEN \* err_out_kobj_put drops the last reference and consumes the
                \* completion; err_out_unregister then puts and waits again
                /\ pol' = [pol EXCEPT ![l.policy] =
                             [p EXCEPT !.kobj = 0, !.kobj_unregister = FALSE]]
                /\ cpufreq_cpu_data' =
                      IF linkfail THEN Unbind(bound, p.cpus)
                      ELSE Unbind(cpufreq_cpu_data, p.cpus)
                /\ cpufreq_policy_cpu' =
                      IF linkfail THEN pcpu ELSE cpufreq_policy_cpu
                /\ errs' = errs \cup {"kref_underflow"}
                /\ th' = [th EXCEPT ![t] =
                            [l EXCEPT !.pc = "add_wait", !.ret = "ENOMEM"]]
                /\ UNCHANGED cpu_policy_rwsem
           ELSE /\ pol' = [pol EXCEPT ![l.policy] =
                             [p EXCEPT !.kobj = 1 + Cardinality(
                                                     sibs \cap cpu_online_mask),
                                       !.governor = NoGov,
                                       !.published = TRUE]]
                /\ cpufreq_cpu_data' = bound
                /\ cpufreq_policy_cpu' = pcpu
                /\ th' = [th EXCEPT ![t] =
                            SetPolicyCall(l, l.policy, CandOf(p),
                                          "add_after_set")]
                /\ UNCHANGED << cpu_policy_rwsem, errs >>
    /\ UNCHANGED << cpu_online_mask, cpufreq_driver, hotcpu_notifier,
                    cpufreq_policy_save, pm_qos, hw_freq, tlog, intent, added >>

\* after __cpufreq_set_policy: on success unlock and return; on failure
\* ->exit, err_out_unregister (unbind, kobject_put) and wait
cpufreq_add_dev_finish(t) ==
    /\ th[t].pc = "add_after_set"
    /\ LET l == th[t]
           cpu == l.cpu
           p == [pol[l.policy] EXCEPT
                    !.user_policy.governor = pol[l.policy].governor]
       IN  IF l.ret = "OK"
           THEN /\ pol' = [pol EXCEPT ![l.policy] = p]
                /\ cpu_policy_rwsem' =
                      unlock_policy_rwsem_write(cpu_policy_rwsem,
                                                cpufreq_policy_cpu, cpu)
                /\ errs' = errs \cup UnlockWriteErrs(cpu_policy_rwsem,
                                                     cpufreq_policy_cpu, t, cpu)
                /\ th' = [th EXCEPT ![t] = Return(l, "OK")]
                /\ added' = added \cup {cpu}
                /\ UNCHANGED cpufreq_cpu_data
           ELSE /\ pol' = [pol EXCEPT ![l.policy] = kobject_put(p)]
                /\ cpufreq_cpu_data' = Unbind(cpufreq_cpu_data, p.cpus)
                /\ th' = [th EXCEPT ![t] = [l EXCEPT !.pc = "add_wait",
                                                     !.exit_calls = @ + 1]]
                /\ UNCHANGED << cpu_policy_rwsem, errs, added >>
    /\ UNCHANGED << cpu_online_mask, cpufreq_driver, hotcpu_notifier,
                    cpufreq_policy_cpu, cpufreq_policy_save, pm_qos, hw_freq,
                    tlog, intent >>

\* wait_for_completion(&policy->kobj_unregister) at err_out_unregister, then
\* err_unlock_policy: unlock and free
cpufreq_add_dev_unwind(t) ==
    /\ th[t].pc = "add_wait"
    /\ pol[th[t].policy].kobj_unregister
    /\ LET l == th[t]
       IN  /\ pol' = [pol EXCEPT ![l.policy] = kfree(l.policy, t)]
           /\ cpu_policy_rwsem' =
                 unlock_policy_rwsem_write(cpu_policy_rwsem,
                                           cpufreq_policy_cpu, l.cpu)
           /\ errs' = errs \cup UnlockWriteErrs(cpu_policy_rwsem,
                                                cpufreq_policy_cpu, t, l.cpu)
                           \cup FreeErrs(l.policy, t)
           /\ th' = [th EXCEPT ![t] = Return(l, l.ret)]
    /\ UNCHANGED << cpu_online_mask, cpufreq_driver, hotcpu_notifier,
                    cpufreq_cpu_data, cpufreq_policy_cpu, cpufreq_policy_save,
                    pm_qos, hw_freq, tlog, intent, added >>

\* -------------------------------------------------- __cpufreq_remove_dev
RemoveCall(l, cpu, retpc) ==
    [Push(l, retpc) EXCEPT !.pc = "rm_begin", !.cpu = cpu, !.data = NULL,
                           !.js = {}]

\* a snapshot that leaves the governor out
SavedSnapshot_NoGovernor(p) ==
    [gov |-> NoGov, min |-> p.user_policy.min, max |-> p.user_policy.max]

\* the snapshot cpufreq_policy_save receives
SavedSnapshot(p) ==
    [gov |-> p.governor, min |-> p.user_policy.min, max |-> p.user_policy.max]

\* entry (the caller holds the write lock): unmapped -> unlock, -EINVAL;
\* a non-owning CPU -> STOP, leave the set, START, LIMITS, put, unlock (the
\* STOP and the change of the set are made between spin_lock_irqsave and
\* spin_unlock_irqrestore of cpufreq_driver_lock: atomic_calls);
\* the owner -> save the snapshot and unbind every CPU of the policy
cpufreq_remove_dev(t, env) ==
    /\ th[t].pc = "rm_begin"
    /\ \E bad \in env.start :
       LET l == th[t]
           cpu == l.cpu
           d == cpufreq_cpu_data[cpu]
           p == pol[d]
           stopped == cpufreq_governor(p, "STOP", {}).p
           left == [stopped EXCEPT !.cpus = @ \ {cpu}]
           started == cpufreq_governor(left, "START", bad).p
           limits == cpufreq_governor(started, "LIMITS", {}).p
           sibs == IF Cardinality(p.cpus) > 1 THEN p.cpus \ {cpu} ELSE {}
           unlocked == unlock_policy_rwsem_write(cpu_policy_rwsem,
                                                 cpufreq_policy_cpu, cpu)
           uerr == UnlockWriteErrs(cpu_policy_rwsem, cpufreq_policy_cpu, t, cpu)
       IN  IF d = NULL
           THEN /\ cpu_policy_rwsem' = unlocked
                /\ errs' = errs \cup uerr
                /\ th' = [th EXCEPT ![t] = Return(l, "EINVAL")]
                /\ UNCHANGED << pol, cpufreq_cpu_data, cpufreq_policy_save >>
           ELSE IF cpu # p.cpu
           THEN /\ pol' = [pol EXCEPT ![d] = kobject_put(limits)]
                /\ cpufreq_cpu_data' = [cpufreq_cpu_data EXCEPT ![cpu] = NULL]
                /\ cpu_policy_rwsem' = unlocked
                /\ errs' = errs \cup uerr \cup DerefErrs(d) \cup PutErrs(p)
                                \cup GovErrs(p)
                /\ th' = [th EXCEPT ![t] =
                            Return([l EXCEPT !.data = d,
                                             !.atomic_calls =
                                                 @ \cup {"CPUFREQ_GOV_STOP"}],
                                   "OK")]
                /\ UNCHANGED cpufreq_policy_save
           ELSE /\ cpufreq_policy_save' =
                      [cpufreq_policy_save EXCEPT ![cpu] = SavedSnapshot(p)]
                /\ cpufreq_cpu_data' =
                      Unbind(cpufreq_cpu_data, sibs \cup {cpu})
                /\ th' = [th EXCEPT ![t] =
                            [l EXCEPT !.data = d, !.js = sibs,
                                      !.pc = IF sibs = {} THEN "rm_stop"
                                             ELSE "rm_links"]]
                /\ errs' = errs \cup DerefErrs(d) \cup GovErrs(p)
                /\ UNCHANGED << pol, cpu_policy_rwsem >>
    /\ added' = added \ {th[t].cpu}
    /\ UNCHANGED << cpu_online_mask, cpufreq_driver, hotcpu_notifier,
                    cpufreq_policy_cpu, pm_qos, hw_freq, tlog, intent >>

\* per sibling: save its snapshot, drop the write lock, remove the link and
\* take the lock again
cpufreq_remove_dev_link(t) ==
    /\ th[t].pc = "rm_links"
    /\ LET l == th[t]
           j == MinOf(l.js)
       IN  /\ cpufreq_policy_save' =
                 [cpufreq_policy_save EXCEPT ![j] = SavedSnapshot(pol[l.data])]
           /\ cpu_policy_rwsem' =
                 unlock_policy_rwsem_write(cpu_policy_rwsem,
                                           cpufreq_policy_cpu, l.cpu)
           /\ errs' = errs \cup UnlockWriteErrs(cpu_policy_rwsem,
                                                cpufreq_policy_cpu, t, l.cpu)
           /\ th' = [th EXCEPT ![t] =
                       LockCall(l, "write", l.cpu, "rm_link_put")]
    /\ UNCHANGED << cpu_online_mask, cpufreq_driver, hotcpu_notifier,
                    cpufreq_cpu_data, cpufreq_policy_cpu, pol, pm_qos, hw_freq,
                    tlog, intent, added >>

\* cpufreq_cpu_put(data) for the sibling whose link was removed
cpufreq_remove_dev_link_put(t) ==
    /\ th[t].pc = "rm_link_put"
    /\ LET l == th[t]
           rest == l.js \ {MinOf(l.js)}
       IN  /\ pol' = [pol EXCEPT ![l.data] = kobject_put(pol[l.data])]
           /\ errs' = errs \cup PutErrs(pol[l.data])
           /\ th' = [th EXCEPT ![t] =
                       [l EXCEPT !.js = rest,
                                 !.pc = IF rest = {} THEN "rm_stop"
                                        ELSE "rm_links"]]
    /\ UNCHANGED << cpu_online_mask, cpufreq_driver, hotcpu_notifier,
                    cpufreq_cpu_data, cpufreq_policy_cpu, cpufreq_policy_save,
                    cpu_policy_rwsem, pm_qos, hw_freq, tlog, intent, added >>

\* STOP the governor, drop the write lock, kobject_put
cpufreq_remove_dev_stop(t) ==
    /\ th[t].pc = "rm_stop"
    /\ LET l == th[t]
           stopped == cpufreq_governor(pol[l.data], "STOP", {}).p
       IN  /\ pol' = [pol EXCEPT ![l.data] = kobject_put(stopped)]
           /\ cpu_policy_rwsem' =
                 unlock_policy_rwsem_write(cpu_policy_rwsem,
                                           cpufreq_policy_cpu, l.cpu)
           /\ errs' = errs \cup UnlockWriteErrs(cpu_policy_rwsem,
                                                cpufreq_policy_cpu, t, l.cpu)
                           \cup PutErrs(pol[l.data]) \cup GovErrs(pol[l.data])
           /\ th' = [th EXCEPT ![t] = [l EXCEPT !.pc = "rm_wait"]]
    /\ UNCHANGED << cpu_online_mask, cpufreq_driver, hotcpu_notifier,
                    cpufreq_cpu_data, cpufreq_policy_cpu, cpufreq_policy_save,
                    pm_qos, hw_freq, tlog, intent, added >>

\* whether Remove waits for the release before it goes on to free
RemoveWaits == TRUE

\* wait_for_completion(cmp), then take the write lock for ->exit
cpufreq_remove_dev_wait(t) ==
    /\ th[t].pc = "rm_wait"
    /\ RemoveWaits => pol[th[t].data].kobj_unregister
    /\ pol' = [pol EXCEPT ![th[t].data].kobj_unregister = FALSE]
    /\ th' = [th EXCEPT ![t] = LockCall(th[t], "write", th[t].cpu, "rm_exit")]
    /\ UNCHANGED << cpu_online_mask, cpufreq_driver, hotcpu_notifier,
                    cpufreq_cpu_data, cpufreq_policy_cpu, cpufreq_policy_save,
                    cpu_policy_rwsem, pm_qos, hw_freq, errs, tlog, intent, added >>

\* ->exit, unlock; with siblings left: take the CPU out of the set and add
\* the first sibling (promotion); without: free the policy
cpufreq_remove_dev_exit(t) ==
    /\ th[t].pc = "rm_exit"
    /\ LET l == th[t]
           p == pol[l.data]
           promote == Cardinality(p.cpus) > 1
           rest == p.cpus \ {l.cpu}
       IN  /\ cpu_policy_rwsem' =
                 unlock_policy_rwsem_write(cpu_policy_rwsem,
                                           cpufreq_policy_cpu, l.cpu)
           /\ errs' = errs \cup UnlockWriteErrs(cpu_policy_rwsem,
                                                cpufreq_policy_cpu, t, l.cpu)
                           \cup (IF promote THEN {} ELSE FreeErrs(l.data, t))
           /\ pol' = [pol EXCEPT ![l.data] =
                        IF promote THEN [p EXCEPT !.cpus = rest]
                        ELSE kfree(l.data, t)]
           /\ th' = [th EXCEPT ![t] =
                       IF promote THEN AddCall(l, MinOf(rest), "rm_readd")
                       ELSE Return(l, "OK")]
    /\ UNCHANGED << cpu_online_mask, cpufreq_driver, hotcpu_notifier,
                    cpufreq_cpu_data, cpufreq_policy_cpu, cpufreq_policy_save,
                    pm_qos, hw_freq, tlog, intent, added >>

\* after the promotion: lock_policy_rwsem_write(cpu), result ignored, and
\* __cpufreq_remove_dev(dev, sif) again, for the CPU's own link
cpufreq_remove_dev_relock(t) ==
    /\ th[t].pc = "rm_readd"
    /\ th' = [th EXCEPT ![t] =
                LockCall(RemoveCall(th[t], th[t].cpu, "rm_free"), "write",
                         th[t].cpu, "rm_begin")]
    /\ OnlyThread

\* kfree(data)
cpufreq_remove_dev_free(t) ==
    /\ th[t].pc = "rm_free"
    /\ pol' = [pol EXCEPT ![th[t].data] = kfree(th[t].data, t)]
    /\ errs' = errs \cup FreeErrs(th[t].data, t)
    /\ th' = [th EXCEPT ![t] = Return(th[t], "OK")]
    /\ UNCHANGED << cpu_online_mask, cpufreq_driver, hotcpu_notifier,
                    cpufreq_cpu_data, cpufreq_policy_cpu, cpufreq_policy_save,
                    cpu_policy_rwsem, pm_qos, hw_freq, tlog, intent, added >>

\* ------------------------------------------------ hotplug and registration
\* what the saved intent becomes when another operation starts
Forget == intent' = NoIntent

\* cpufreq_register_driver: claim the slot, then add every CPU device
cpufreq_register_driver(drv) ==
    /\ th["hp"].pc = "idle"
    /\ cpufreq_driver = NoDriver
    /\ cpufreq_driver' = drv
    /\ th' = [th EXCEPT !["hp"] =
                [Begin("register", "reg_loop") EXCEPT !.js = CPUS]]
    /\ Forget
    /\ UNCHANGED << cpu_online_mask, hotcpu_notifier, cpufreq_cpu_data,
                    cpufreq_policy_cpu, cpufreq_policy_save, cpu_policy_rwsem,
                    pol, pm_qos, hw_freq, errs, tlog, added >>

\* a claim of the slot that does not look whether it is taken
cpufreq_register_driver_claim_Unchecked(t, drv) ==
    /\ th[t].pc = "idle"
    /\ cpufreq_driver' = drv
    /\ th' = [th EXCEPT ![t] =
                [Begin("register", "reg_loop") EXCEPT !.js = CPUS]]
    /\ Forget
    /\ UNCHANGED << cpu_online_mask, hotcpu_notifier, cpufreq_cpu_data,
                    cpufreq_policy_cpu, cpufreq_policy_save, cpu_policy_rwsem,
                    pol, pm_qos, hw_freq, errs, tlog, added >>

\* cpufreq_register_driver called by any thread: under cpufreq_driver_lock
\* the slot is looked at and, when free, taken; a taken slot gives -EBUSY
cpufreq_register_driver_claim(t, drv) ==
    /\ th[t].pc = "idle"
    /\ cpufreq_driver' = IF cpufreq_driver # NoDriver THEN cpufreq_driver
                         ELSE drv
    /\ th' = [th EXCEPT ![t] =
                IF cpufreq_driver # NoDriver
                THEN [Begin("register", "done") EXCEPT !.stk = << >>,
                                                       !.ret = "EBUSY"]
                ELSE [Begin("register", "reg_loop") EXCEPT !.js = CPUS]]
    /\ Forget
    /\ UNCHANGED << cpu_online_mask, hotcpu_notifier, cpufreq_cpu_data,
                    cpufreq_policy_cpu, cpufreq_policy_save, cpu_policy_rwsem,
                    pol, pm_qos, hw_freq, errs, tlog, added >>

\* subsys_interface_register: cpufreq_add_dev for each CPU in turn; then the
\* check for one working CPU (the drivers are not CPUFREQ_STICKY)
cpufreq_register_driver_loop(t) ==
    /\ th[t].pc = "reg_loop"
    /\ LET l == th[t]
           working == \E c \in CPUS : cpufreq_cpu_data[c] # NULL
       IN  /\ th' = [th EXCEPT ![t] =
                       IF l.js # {}
                       THEN AddCall([l EXCEPT !.js = @ \ {MinOf(l.js)}],
                                    MinOf(l.js), "reg_loop")
                       ELSE IF working THEN Return(l, "OK")
                       ELSE [l EXCEPT !.pc = "unreg_loop", !.js = CPUS]]
           /\ hotcpu_notifier' =
                 IF l.js = {} /\ working THEN TRUE ELSE hotcpu_notifier
    /\ UNCHANGED << cpu_online_mask, cpufreq_driver, cpufreq_cpu_data,
                    cpufreq_policy_cpu, cpufreq_policy_save, cpu_policy_rwsem,
                    pol, pm_qos, hw_freq, errs, tlog, intent, added >>

\* cpufreq_unregister_driver: remove every CPU device, then drop the notifier
\* and the driver
cpufreq_unregister_driver ==
    /\ th["hp"].pc = "idle"
    /\ cpufreq_driver # NoDriver
    /\ hotcpu_notifier
    /\ th' = [th EXCEPT !["hp"] =
                [Begin("unregister", "unreg_loop") EXCEPT !.js = CPUS]]
    /\ Forget
    /\ UNCHANGED << cpu_online_mask, cpufreq_driver, hotcpu_notifier,
                    cpufreq_cpu_data, cpufreq_policy_cpu, cpufreq_policy_save,
                    cpu_policy_rwsem, pol, pm_qos, hw_freq, errs, tlog, added >>

\* an unregistration that leaves cpufreq_driver set
cpufreq_unregister_loop_KeepsDriver(t) ==
    /\ th[t].pc = "unreg_loop"
    /\ LET l == th[t]
           c == MinOf(l.js)
           rest == [l EXCEPT !.js = @ \ {c}]
       IN  /\ th' = [th EXCEPT ![t] =
                       IF l.js = {}
                       THEN Return(l, IF l.op = "register" THEN "ENODEV"
                                      ELSE "OK")
                       ELSE IF c \notin cpu_online_mask THEN rest
                       ELSE LockCall([rest EXCEPT !.cpu = c], "write", c,
                                     "unreg_locked")]
           /\ hotcpu_notifier' = IF l.js = {} THEN FALSE ELSE hotcpu_notifier
    /\ UNCHANGED << cpu_online_mask, cpufreq_driver, cpufreq_cpu_data,
                    cpufreq_policy_cpu, cpufreq_policy_save, cpu_policy_rwsem,
                    pol, pm_qos, hw_freq, errs, tlog, intent, added >>

\* subsys_interface_unregister: cpufreq_remove_dev(cpu) for each CPU (offline
\* CPUs are skipped, the others are write-locked first); at the end the
\* notifier is unregistered and cpufreq_driver cleared
cpufreq_unregister_loop(t) ==
    /\ th[t].pc = "unreg_loop"
    /\ LET l == th[t]
           c == MinOf(l.js)
           rest == [l EXCEPT !.js = @ \ {c}]
       IN  /\ th' = [th EXCEPT ![t] =
                       IF l.js = {}
                       THEN Return(l, IF l.op = "register" THEN "ENODEV"
                                      ELSE "OK")
                       ELSE IF c \notin cpu_online_mask THEN rest
                       ELSE LockCall([rest EXCEPT !.cpu = c], "write", c,
                                     "unreg_locked")]
           /\ cpufreq_driver' = IF l.js = {} THEN NoDriver ELSE cpufreq_driver
           /\ hotcpu_notifier' = IF l.js = {} THEN FALSE ELSE hotcpu_notifier
    /\ UNCHANGED << cpu_online_mask, cpufreq_cpu_data, cpufreq_policy_cpu,
                    cpufreq_policy_save, cpu_policy_rwsem, pol, pm_qos,
                    hw_freq, errs, tlog, intent, added >>

\* cpufreq_remove_dev after the lock: BUG() when the lock failed
cpufreq_remove_dev_locked(t) ==
    /\ th[t].pc \in {"unreg_locked", "down_locked"}
    /\ LET l == th[t]
           next == IF l.pc = "down_locked" THEN "down_offline" ELSE "unreg_loop"
       IN  /\ th' = [th EXCEPT ![t] =
                       IF l.lkret # 0 THEN [l EXCEPT !.pc = "oops"]
                       ELSE RemoveCall(l, l.cpu, next)]
           /\ errs' = IF l.lkret # 0 THEN errs \cup {"BUG"} ELSE errs
    /\ UNCHANGED << cpu_online_mask, cpufreq_driver, hotcpu_notifier,
                    cpufreq_cpu_data, cpufreq_policy_cpu, cpufreq_policy_save,
                    cpu_policy_rwsem, pol, pm_qos, hw_freq, tlog, intent, added >>

\* a CPU comes online: CPU_ONLINE -> cpufreq_add_dev when the notifier is
\* registered
cpu_up(c) ==
    /\ th["hp"].pc = "idle"
    /\ c \notin cpu_online_mask
    /\ cpu_online_mask' = cpu_online_mask \cup {c}
    /\ th' = [th EXCEPT !["hp"] =
                IF hotcpu_notifier
                THEN [Begin("cpu_up", "add_begin") EXCEPT !.arg = c, !.cpu = c]
                ELSE [Begin("cpu_up", "done") EXCEPT !.arg = c, !.stk = << >>]]
    /\ intent' = IF intent.st = "removed" /\ intent.cpu = c /\ hotcpu_notifier
                 THEN [intent EXCEPT !.st = "readded"] ELSE NoIntent
    /\ UNCHANGED << cpufreq_driver, hotcpu_notifier, cpufreq_cpu_data,
                    cpufreq_policy_cpu, cpufreq_policy_save, cpu_policy_rwsem,
                    pol, pm_qos, hw_freq, errs, tlog, added >>

\* a CPU is about to go offline: CPU_DOWN_PREPARE -> write lock, then
\* __cpufreq_remove_dev
cpu_down_prepare(c) ==
    /\ th["hp"].pc = "idle"
    /\ c \in cpu_online_mask
    /\ cpu_online_mask # {c}
    /\ hotcpu_notifier
    /\ th' = [th EXCEPT !["hp"] =
                LockCall([Begin("cpu_down", "idle") EXCEPT
                             !.arg = c, !.cpu = c], "write", c, "down_locked")]
    /\ intent' = IF cpufreq_cpu_data[c] # NULL
                 THEN [st |-> "removing", cpu |-> c,
                       governor |-> pol[cpufreq_cpu_data[c]].governor,
                       min |-> pol[cpufreq_cpu_data[c]].user_policy.min,
                       max |-> pol[cpufreq_cpu_data[c]].user_policy.max]
                 ELSE NoIntent
    /\ UNCHANGED << cpu_online_mask, cpufreq_driver, hotcpu_notifier,
                    cpufreq_cpu_data, cpufreq_policy_cpu, cpufreq_policy_save,
                    cpu_policy_rwsem, pol, pm_qos, hw_freq, errs, tlog, added >>

\* the CPU is taken down after the notifier returned
cpu_down(t) ==
    /\ th[t].pc = "down_offline"
    /\ cpu_online_mask' = cpu_online_mask \ {th[t].arg}
    /\ th' = [th EXCEPT ![t] = Return(th[t], th[t].ret)]
    /\ intent' = IF intent.st = "removing" /\ th[t].ret = "OK"
                 THEN [intent EXCEPT !.st = "removed"] ELSE NoIntent
    /\ UNCHANGED << cpufreq_driver, hotcpu_notifier, cpufreq_cpu_data,
                    cpufreq_policy_cpu, cpufreq_policy_save, cpu_policy_rwsem,
                    pol, pm_qos, hw_freq, errs, tlog, added >>

\* a CPU changes state while no notifier is registered
cpu_hotplug_unnotified(c) ==
    /\ th["hp"].pc = "idle"
    /\ ~hotcpu_notifier
    /\ c # 0
    /\ cpu_online_mask' = IF c \in cpu_online_mask THEN cpu_online_mask \ {c}
                          ELSE cpu_online_mask \cup {c}
    /\ Forget
    /\ UNCHANGED << cpufreq_driver, hotcpu_notifier, cpufreq_cpu_data,
                    cpufreq_policy_cpu, cpufreq_policy_save, cpu_policy_rwsem,
                    pol, pm_qos, hw_freq, th, errs, tlog, added >>

\* the operation of thread t returned to its caller
Finish(t) ==
    /\ th[t].pc = "done"
    /\ th' = [th EXCEPT ![t] = Idle]
    /\ intent' = IF th[t].op = "cpu_down" THEN intent ELSE NoIntent
    /\ UNCHANGED << cpu_online_mask, cpufreq_driver, hotcpu_notifier,
                    cpufreq_cpu_data, cpufreq_policy_cpu, cpufreq_policy_save,
                    cpu_policy_rwsem, pol, pm_qos, hw_freq, errs, tlog, added >>

\* ------------------------------------------------- sysfs attribute files
\* the threads that act for user space and for other kernel subsystems
UserThreads == {"u1", "u2"}

FreqAttrs == {"scaling_min_freq", "scaling_max_freq"}
ShowAttrs == FreqAttrs \cup {"policy_min_freq", "policy_max_freq",
                             "scaling_governor"}

\* the cap store_scaling_governor puts on policy->max (2803200 kHz)
GovernorStoreCap == MaxFreq

\* store_##file_name(policy, buf, count) called with policy; the caller
\* continues at retpc
StoreCall(l, policy, retpc) ==
    [Push(l, retpc) EXCEPT !.pc = "st_attr", !.policy = policy]

\* sscanf(buf, "%u", &new_policy.object)
Parsed(c, attr, val) ==
    IF attr = "scaling_min_freq" THEN [c EXCEPT !.min = val]
    ELSE [c EXCEPT !.max = val]

\* store_scaling_min_freq / store_scaling_max_freq up to the call of
\* __cpufreq_set_policy: copy the policy, start from the user bounds, parse,
\* ->verify (a failure is only logged), frequency lock, user_policy
store_one(t, env) ==
    /\ th[t].pc = "st_attr"
    /\ th[t].attr \in FreqAttrs
    /\ \E limited_cpu_freq \in env.maxlock, verify_fails \in env.verify :
       LET l == th[t]
           p == l.policy
           got == cpufreq_cpu_get_result(pol[p].cpu)
           c0 == CandOf(pol[got])
           c1 == Parsed([c0 EXCEPT !.min = c0.umin, !.max = c0.umax],
                        l.attr, l.val)
           c2 == IF verify_fails THEN c1 ELSE DriverVerify(c1, pol[got].cpuinfo)
           c3 == IF limited_cpu_freq > 0 /\ c2.max > limited_cpu_freq
                 THEN [c2 EXCEPT !.max = limited_cpu_freq] ELSE c2
       IN  /\ pol' = IF got = NULL THEN pol
                     ELSE [pol EXCEPT ![p].user_policy.max = c3.max,
                                      ![p].user_policy.min = c3.min]
           /\ th' = [th EXCEPT ![t] =
                       IF got = NULL THEN Return(l, "EINVAL")
                       ELSE SetPolicyCall(
                                [l EXCEPT !.limited_cpu_freq = limited_cpu_freq],
                                p, c3, "st_after")]
           /\ errs' = errs \cup DerefErrs(p)
    /\ UNCHANGED << cpu_online_mask, cpufreq_driver, hotcpu_notifier,
                    cpufreq_cpu_data, cpufreq_policy_cpu, cpufreq_policy_save,
                    cpu_policy_rwsem, pm_qos, hw_freq, tlog, intent, added >>

\* policy->user_policy.object = new_policy.object; return
store_one_finish(t) ==
    /\ th[t].pc = "st_after"
    /\ LET l == th[t]
           c == l.new_policy
       IN  /\ pol' = [pol EXCEPT ![l.policy].user_policy =
                        IF l.attr = "scaling_min_freq"
                        THEN [@ EXCEPT !.min = c.min]
                        ELSE [@ EXCEPT !.max = c.max]]
           /\ th' = [th EXCEPT ![t] =
                       Return([l EXCEPT !.new_policy = NoCand], l.ret)]
           /\ errs' = errs \cup DerefErrs(l.policy)
    /\ UNCHANGED << cpu_online_mask, cpufreq_driver, hotcpu_notifier,
                    cpufreq_cpu_data, cpufreq_policy_cpu, cpufreq_policy_save,
                    cpu_policy_rwsem, pm_qos, hw_freq, tlog, intent, added >>

\* store_scaling_governor up to the call of __cpufreq_set_policy; a name
\* cpufreq_parse_governor does not know is NoGov
store_scaling_governor(t) ==
    /\ th[t].pc = "st_attr"
    /\ th[t].attr = "scaling_governor"
    /\ LET l == th[t]
           p == l.policy
           got == cpufreq_cpu_get_result(pol[p].cpu)
           rejected == got = NULL \/ l.gov = NoGov
       IN  /\ th' = [th EXCEPT ![t] =
                       IF rejected THEN Return(l, "EINVAL")
                       ELSE SetPolicyCall(l, p,
                                [CandOf(pol[got]) EXCEPT !.governor = l.gov],
                                "st_gov_after")]
           /\ errs' = errs \cup DerefErrs(p)
    /\ UNCHANGED << cpu_online_mask, cpufreq_driver, hotcpu_notifier,
                    cpufreq_cpu_data, cpufreq_policy_cpu, cpufreq_policy_save,
                    cpu_policy_rwsem, pol, pm_qos, hw_freq, tlog, intent, added >>

\* the cap on policy->max, user_policy.governor = policy->governor
store_scaling_governor_finish(t) ==
    /\ th[t].pc = "st_gov_after"
    /\ LET l == th[t]
           d == pol[l.policy]
       IN  /\ pol' = [pol EXCEPT ![l.policy] =
                        [d EXCEPT !.max = Min2(d.max, GovernorStoreCap),
                                  !.user_policy.governor = d.governor]]
           /\ th' = [th EXCEPT ![t] =
                       Return([l EXCEPT !.new_policy = NoCand], l.ret)]
           /\ errs' = errs \cup DerefErrs(l.policy)
    /\ UNCHANGED << cpu_online_mask, cpufreq_driver, hotcpu_notifier,
                    cpufreq_cpu_data, cpufreq_policy_cpu, cpufreq_policy_save,
                    cpu_policy_rwsem, pm_qos, hw_freq, tlog, intent, added >>

\* a write to an attribute file of policy p; gov is the governor named, for
\* scaling_governor
sysfs_store(t, p, attr, val, gov) ==
    /\ th[t].pc = "idle"
    /\ pol[p].st = "live" /\ pol[p].published
    /\ th' = [th EXCEPT ![t] =
                [Begin("store", "st_get") EXCEPT !.policy = p, !.attr = attr,
                                                  !.val = val, !.gov = gov]]
    /\ Forget
    /\ UNCHANGED << cpu_online_mask, cpufreq_driver, hotcpu_notifier,
                    cpufreq_cpu_data, cpufreq_policy_cpu, cpufreq_policy_save,
                    cpu_policy_rwsem, pol, pm_qos, hw_freq, errs, tlog, added >>

\* store(): policy = cpufreq_cpu_get_sysfs(policy->cpu), then
\* lock_policy_rwsem_write(policy->cpu)
store(t) ==
    /\ th[t].pc = "st_get"
    /\ LET l == th[t]
           got == cpufreq_cpu_get_result(pol[l.policy].cpu)
       IN  /\ th' = [th EXCEPT ![t] =
                       IF got = NULL THEN Return(l, "EINVAL")
                       ELSE LockCall([l EXCEPT !.policy = got], "write",
                                     pol[got].cpu, "st_locked")]
           /\ errs' = errs \cup DerefErrs(l.policy)
    /\ UNCHANGED << cpu_online_mask, cpufreq_driver, hotcpu_notifier,
                    cpufreq_cpu_data, cpufreq_policy_cpu, cpufreq_policy_save,
                    cpu_policy_rwsem, pol, pm_qos, hw_freq, tlog, intent, added >>

\* store(): the lock failed -> fail; else fattr->store(policy, buf, count)
store_locked(t) ==
    /\ th[t].pc = "st_locked"
    /\ LET l == th[t]
       IN  th' = [th EXCEPT ![t] =
                    IF l.lkret # 0 THEN Return(l, "EINVAL")
                    ELSE StoreCall(l, l.policy, "st_unlock")]
    /\ OnlyThread

\* store(): unlock_policy_rwsem_write(policy->cpu) and return
store_unlock(t) ==
    /\ th[t].pc = "st_unlock"
    /\ LET l == th[t]
           cpu == pol[l.policy].cpu
       IN  /\ cpu_policy_rwsem' =
                 unlock_policy_rwsem_write(cpu_policy_rwsem,
                                           cpufreq_policy_cpu, cpu)
           /\ errs' = errs \cup DerefErrs(l.policy)
                           \cup UnlockWriteErrs(cpu_policy_rwsem,
                                                cpufreq_policy_cpu, t, cpu)
           /\ th' = [th EXCEPT ![t] = Return(l, l.ret)]
    /\ UNCHANGED << cpu_online_mask, cpufreq_driver, hotcpu_notifier,
                    cpufreq_cpu_data, cpufreq_policy_cpu, cpufreq_policy_save,
                    pol, pm_qos, hw_freq, tlog, intent, added >>

\* a read of an attribute file of policy p
sysfs_show(t, p, attr) ==
    /\ th[t].pc = "idle"
    /\ pol[p].st = "live" /\ pol[p].published
    /\ th' = [th EXCEPT ![t] =
                [Begin("show", "sh_get") EXCEPT !.policy = p, !.attr = attr]]
    /\ Forget
    /\ UNCHANGED << cpu_online_mask, cpufreq_driver, hotcpu_notifier,
                    cpufreq_cpu_data, cpufreq_policy_cpu, cpufreq_policy_save,
                    cpu_policy_rwsem, pol, pm_qos, hw_freq, errs, tlog, added >>

\* show(): policy = cpufreq_cpu_get_sysfs(policy->cpu), then
\* lock_policy_rwsem_read(policy->cpu)
show(t) ==
    /\ th[t].pc = "sh_get"
    /\ LET l == th[t]
           got == cpufreq_cpu_get_result(pol[l.policy].cpu)
       IN  /\ th' = [th EXCEPT ![t] =
                       IF got = NULL THEN Return(l, "EINVAL")
                       ELSE LockCall([l EXCEPT !.policy = got], "read",
                                     pol[got].cpu, "sh_locked")]
           /\ errs' = errs \cup DerefErrs(l.policy)
    /\ UNCHANGED << cpu_online_mask, cpufreq_driver, hotcpu_notifier,
                    cpufreq_cpu_data, cpufreq_policy_cpu, cpufreq_policy_save,
                    cpu_policy_rwsem, pol, pm_qos, hw_freq, tlog, intent, added >>

\* show_one(file_name, object): the field an attribute file prints
ShowOne(d, attr) ==
    CASE attr = "scaling_min_freq" -> d.min
      [] attr = "scaling_max_freq" -> d.max
      [] attr = "policy_min_freq" -> d.user_policy.min
      [] attr = "policy_max_freq" -> d.user_policy.max
      [] OTHER -> 0

\* show(): the lock failed -> fail; else fattr->show(policy, buf),
\* unlock_policy_rwsem_read(policy->cpu)
show_locked(t) ==
    /\ th[t].pc = "sh_locked"
    /\ LET l == th[t]
           d == pol[l.policy]
       IN  IF l.lkret # 0
           THEN /\ th' = [th EXCEPT ![t] = Return(l, "EINVAL")]
                /\ UNCHANGED << cpu_policy_rwsem, errs >>
           ELSE /\ th' = [th EXCEPT ![t] =
                            Return([l EXCEPT !.seen = ShowOne(d, l.attr),
                                             !.gov = d.governor], "OK")]
                /\ cpu_policy_rwsem' =
                      unlock_policy_rwsem_read(cpu_policy_rwsem,
                                               cpufreq_policy_cpu, t, d.cpu)
                /\ errs' = errs \cup DerefErrs(l.policy)
                                \cup UnlockReadErrs(cpu_policy_rwsem,
                                                    cpufreq_policy_cpu, t, d.cpu)
    /\ UNCHANGED << cpu_online_mask, cpufreq_driver, hotcpu_notifier,
                    cpufreq_cpu_data, cpufreq_policy_cpu, cpufreq_policy_save,
                    pol, pm_qos, hw_freq, tlog, intent, added >>

\* a write to scaling_min_freq_all_cpus / scaling_max_freq_all_cpus of the
\* global kobject
store_scaling_freq(t, attr, val) ==
    /\ th[t].pc = "idle"
    /\ th' = [th EXCEPT ![t] =
                [Begin("store_all", "gs_loop") EXCEPT !.attr = attr,
                                                      !.val = val, !.js = CPUS]]
    /\ Forget
    /\ UNCHANGED << cpu_online_mask, cpufreq_driver, hotcpu_notifier,
                    cpufreq_cpu_data, cpufreq_policy_cpu, cpufreq_policy_save,
                    cpu_policy_rwsem, pol, pm_qos, hw_freq, errs, tlog, added >>

\* store_scaling_freq, for_each_possible_cpu: an offline CPU gets the value
\* saved; for an online one with a policy the per-policy store function is
\* called with no policy rwsem taken
store_scaling_freq_loop(t) ==
    /\ th[t].pc = "gs_loop"
    /\ LET l == th[t]
           cpu == MinOf(l.js)
           rest == [l EXCEPT !.js = @ \ {cpu}]
           got == cpufreq_cpu_get_result(cpu)
       IN  IF l.js = {}
           THEN /\ th' = [th EXCEPT ![t] = Return(l, "OK")]
                /\ UNCHANGED cpufreq_policy_save
           ELSE IF cpu \notin cpu_online_mask
           THEN /\ cpufreq_policy_save' =
                      IF l.attr = "scaling_min_freq"
                      THEN [cpufreq_policy_save EXCEPT ![cpu].min = l.val]
                      ELSE [cpufreq_policy_save EXCEPT ![cpu].max = l.val]
                /\ th' = [th EXCEPT ![t] = rest]
           ELSE /\ th' = [th EXCEPT ![t] =
                            IF got = NULL THEN rest
                            ELSE StoreCall(rest, got, "gs_loop")]
                /\ UNCHANGED cpufreq_policy_save
    /\ UNCHANGED << cpu_online_mask, cpufreq_driver, hotcpu_notifier,
                    cpufreq_cpu_data, cpufreq_policy_cpu, cpu_policy_rwsem, pol,
                    pm_qos, hw_freq, errs, tlog, intent, added >>

\* -------------------------------------------------- frequency transitions
\* the POSTCHANGE chain called after policy->cur is written
OutOfSyncNotes_AfterWrite(cpu, old_freq, new_freq) ==
    LET p == cpufreq_cpu_data[cpu]
        owns == p # NULL /\ pol[p].cpu = cpu
        cur == IF p # NULL THEN pol[p].cur ELSE 0
        old == IF owns /\ pol[p].cur # 0 /\ pol[p].cur # old_freq
               THEN pol[p].cur ELSE old_freq
    IN  << [state |-> "PRECHANGE", cpu |-> cpu, old |-> old, new |-> new_freq,
            cur |-> cur],
           [state |-> "POSTCHANGE", cpu |-> cpu, old |-> old, new |-> new_freq,
            cur |-> IF owns THEN new_freq ELSE cur] >>

\* cpufreq_out_of_sync(cpu, old_freq, new_freq): cpufreq_notify_transition
\* with PRECHANGE, then with POSTCHANGE, on one struct cpufreq_freqs. The
\* PRECHANGE step replaces freqs->old by policy->cur when cpu owns the policy
\* and they differ; the POSTCHANGE step stores freqs->new in policy->cur when
\* cpu owns the policy, after the notifier chain has run. cur: policy->cur of
\* per_cpu(cpufreq_cpu_data, cpu) as the chain finds it (0: no policy).
OutOfSyncNotes(cpu, old_freq, new_freq) ==
    LET p == cpufreq_cpu_data[cpu]
        owns == p # NULL /\ pol[p].cpu = cpu
        cur == IF p # NULL THEN pol[p].cur ELSE 0
        old == IF owns /\ pol[p].cur # 0 /\ pol[p].cur # old_freq
               THEN pol[p].cur ELSE old_freq
    IN  << [state |-> "PRECHANGE", cpu |-> cpu, old |-> old, new |-> new_freq,
            cur |-> cur],
           [state |-> "POSTCHANGE", cpu |-> cpu, old |-> old, new |-> new_freq,
            cur |-> cur] >>

\* the policies after cpufreq_out_of_sync
OutOfSyncPolicies(cpu, new_freq) ==
    LET p == cpufreq_cpu_data[cpu]
    IN  IF p # NULL /\ pol[p].cpu = cpu THEN [pol EXCEPT ![p].cur = new_freq]
        ELSE pol

\* ------------------------------------------------- cpufreq_update_policy
UpdateCall(l, cpu, retpc) ==
    [Push(l, retpc) EXCEPT !.pc = "up_get", !.cpu = cpu]

\* data = cpufreq_cpu_get(cpu); lock_policy_rwsem_write(cpu)
cpufreq_update_policy(t) ==
    /\ th[t].pc = "up_get"
    /\ LET l == th[t]
           got == cpufreq_cpu_get_result(l.cpu)
       IN  /\ pol' = IF got = NULL THEN pol
                     ELSE [pol EXCEPT ![got] = kobject_get(@)]
           /\ th' = [th EXCEPT ![t] =
                       IF got = NULL THEN Return(l, "ENODEV")
                       ELSE LockCall([l EXCEPT !.data = got,
                                               !.refs = Append(@, got)],
                                     "write", l.cpu, "up_locked")]
    /\ UNCHANGED << cpu_online_mask, cpufreq_driver, hotcpu_notifier,
                    cpufreq_cpu_data, cpufreq_policy_cpu, cpufreq_policy_save,
                    cpu_policy_rwsem, pm_qos, hw_freq, errs, tlog, intent,
                    added >>

\* a candidate that starts one step below the live maximum
UpdateCandidate_Narrowed(d) ==
    [CandOf(d) EXCEPT !.min = d.user_policy.min,
                      !.max = IF d.max > d.min THEN d.max - 1 ELSE d.max,
                      !.governor = d.user_policy.governor]

\* the candidate of cpufreq_update_policy: a copy of the policy with the
\* user's bounds and governor
UpdateCandidate(d) ==
    [CandOf(d) EXCEPT !.min = d.user_policy.min,
                      !.max = d.user_policy.max,
                      !.governor = d.user_policy.governor]

\* the lock failed -> fail; else the candidate is the policy with the user's
\* bounds and governor, ->get tells the current frequency (a difference from
\* data->cur goes to cpufreq_out_of_sync), then __cpufreq_set_policy
cpufreq_update_policy_locked(t) ==
    /\ th[t].pc = "up_locked"
    /\ LET l == th[t]
           d == pol[l.data]
           cur == hw_freq[l.cpu]
           desync == d.cur # 0 /\ d.cur # cur
           cand == UpdateCandidate(d)
           pol1 == IF d.cur = 0 THEN [pol EXCEPT ![l.data].cur = cur]
                   ELSE IF desync THEN OutOfSyncPolicies(l.cpu, cur)
                   ELSE pol
       IN  IF l.lkret # 0
           THEN /\ pol' = [pol EXCEPT ![l.data] = kobject_put(@)]
                /\ errs' = errs \cup PutErrs(d)
                /\ th' = [th EXCEPT ![t] =
                            Return([l EXCEPT !.refs = DropRef(@, l.data)],
                                   "EINVAL")]
                /\ UNCHANGED tlog
           ELSE /\ pol' = pol1
                /\ tlog' = IF desync
                           THEN tlog \o OutOfSyncNotes(l.cpu, d.cur, cur)
                           ELSE tlog
                /\ errs' = errs \cup DerefErrs(l.data)
                /\ th' = [th EXCEPT ![t] =
                            SetPolicyCall(l, l.data, cand, "up_after")]
    /\ UNCHANGED << cpu_online_mask, cpufreq_driver, hotcpu_notifier,
                    cpufreq_cpu_data, cpufreq_policy_cpu, cpufreq_policy_save,
                    cpu_policy_rwsem, pm_qos, hw_freq, intent, added >>

\* unlock_policy_rwsem_write(cpu); cpufreq_cpu_put(data)
cpufreq_update_policy_finish(t) ==
    /\ th[t].pc = "up_after"
    /\ LET l == th[t]
       IN  /\ cpu_policy_rwsem' =
                 unlock_policy_rwsem_write(cpu_policy_rwsem,
                                           cpufreq_policy_cpu, l.cpu)
           /\ pol' = [pol EXCEPT ![l.data] = kobject_put(@)]
           /\ errs' = errs \cup PutErrs(pol[l.data]) \cup DerefErrs(l.data)
                           \cup UnlockWriteErrs(cpu_policy_rwsem,
                                                cpufreq_policy_cpu, t, l.cpu)
           /\ th' = [th EXCEPT ![t] =
                       Return([l EXCEPT !.refs = DropRef(@, l.data),
                                        !.new_policy = NoCand], l.ret)]
    /\ UNCHANGED << cpu_online_mask, cpufreq_driver, hotcpu_notifier,
                    cpufreq_cpu_data, cpufreq_policy_cpu, cpufreq_policy_save,
                    pm_qos, hw_freq, tlog, intent, added >>

\* a call of cpufreq_update_policy(cpu) by another subsystem
update_policy(t, cpu) ==
    /\ th[t].pc = "idle"
    /\ cpufreq_driver # NoDriver
    /\ th' = [th EXCEPT ![t] =
                [Begin("update_policy", "up_get") EXCEPT !.arg = cpu,
                                                         !.cpu = cpu]]
    /\ Forget
    /\ UNCHANGED << cpu_online_mask, cpufreq_driver, hotcpu_notifier,
                    cpufreq_cpu_data, cpufreq_policy_cpu, cpufreq_policy_save,
                    cpu_policy_rwsem, pol, pm_qos, hw_freq, errs, tlog, added >>

\* handle_update, the work item of policy p: cpufreq_update_policy(policy->cpu)
handle_update(p) ==
    /\ th["kw"].pc = "idle"
    /\ pol[p].update
    /\ pol' = [pol EXCEPT ![p].update = FALSE]
    /\ th' = [th EXCEPT !["kw"] =
                [Begin("handle_update", "up_get") EXCEPT !.arg = pol[p].cpu,
                                                         !.cpu = pol[p].cpu]]
    /\ errs' = errs \cup (IF pol[p].st = "live" THEN {} ELSE {"use_after_free"})
    /\ Forget
    /\ UNCHANGED << cpu_online_mask, cpufreq_driver, hotcpu_notifier,
                    cpufreq_cpu_data, cpufreq_policy_cpu, cpufreq_policy_save,
                    cpu_policy_rwsem, pm_qos, hw_freq, tlog, added >>

\* -------------------------------------------------------- cpufreq_set_gov
\* cpufreq_set_gov(target_gov, cpu), called by another subsystem; gov is the
\* governor cpufreq_parse_governor finds for the name (NoGov: none).
\*   entry:     cur_policy = cpufreq_cpu_get(cpu), lock_policy_rwsem_read
\*   sg_read:   the name is compared with the installed governor under the
\*              read lock, which is dropped again
\*   sg_copy:   new_policy = *cur_policy with no lock held, the governor is
\*              parsed into the copy, lock_policy_rwsem_write
\*   sg_locked: __cpufreq_set_policy(cur_policy, &new_policy)
\*   sg_after:  user_policy.governor, unlock, cpufreq_cpu_put
cpufreq_set_gov(t) ==
    /\ LET l == th[t]
           d == pol[l.data]
           Put(r) ==
               /\ pol' = [pol EXCEPT ![l.data] = kobject_put(@)]
               /\ th' = [th EXCEPT ![t] =
                           Return([l EXCEPT !.refs = DropRef(@, l.data),
                                            !.new_policy = NoCand], r)]
       IN  \/ /\ l.pc = "idle"
              /\ cpufreq_driver # NoDriver
              /\ \E cpu \in CPUS, gov \in Governors \cup {NoGov} :
                    LET got == cpufreq_cpu_get_result(cpu)
                        b == [Begin("set_gov", "sg_read") EXCEPT
                                 !.arg = cpu, !.cpu = cpu, !.gov = gov]
                    IN  /\ pol' = IF got = NULL THEN pol
                                  ELSE [pol EXCEPT ![got] = kobject_get(@)]
                        /\ th' = [th EXCEPT ![t] =
                                    IF got = NULL THEN Return(b, "EINVAL")
                                    ELSE LockCall([b EXCEPT !.data = got,
                                                            !.refs = << got >>],
                                                  "read", pol[got].cpu, "sg_read")]
              /\ Forget
              /\ UNCHANGED << cpu_policy_rwsem, errs >>
           \/ /\ l.pc = "sg_read"
              /\ IF l.lkret # 0
                 THEN /\ Put("EINVAL")
                      /\ errs' = errs \cup PutErrs(d)
                      /\ UNCHANGED cpu_policy_rwsem
                 ELSE /\ cpu_policy_rwsem' =
                            unlock_policy_rwsem_read(cpu_policy_rwsem,
                                                     cpufreq_policy_cpu, t, d.cpu)
                      /\ IF d.governor = NoGov \/ d.governor = l.gov
                         THEN /\ Put("EINVAL")
                              /\ errs' = errs \cup PutErrs(d)
                                     \cup DerefErrs(l.data)
                                     \cup UnlockReadErrs(cpu_policy_rwsem,
                                              cpufreq_policy_cpu, t, d.cpu)
                         ELSE /\ th' = [th EXCEPT ![t] = [l EXCEPT !.pc = "sg_copy"]]
                              /\ errs' = errs \cup DerefErrs(l.data)
                                     \cup UnlockReadErrs(cpu_policy_rwsem,
                                              cpufreq_policy_cpu, t, d.cpu)
                              /\ UNCHANGED pol
              /\ UNCHANGED intent
           \/ /\ l.pc = "sg_copy"
              /\ IF l.gov = NoGov
                 THEN /\ Put("EINVAL")
                      /\ errs' = errs \cup PutErrs(d)
                 ELSE /\ th' = [th EXCEPT ![t] =
                                  LockCall([l EXCEPT !.new_policy =
                                               [CandOf(d) EXCEPT !.governor = l.gov]],
                                           "write", d.cpu, "sg_locked")]
                      /\ errs' = errs \cup DerefErrs(l.data)
                      /\ UNCHANGED pol
              /\ UNCHANGED << cpu_policy_rwsem, intent >>
           \/ /\ l.pc = "sg_locked"
              /\ IF l.lkret # 0
                 THEN /\ Put("EINVAL")
                      /\ errs' = errs \cup PutErrs(d)
                 ELSE /\ th' = [th EXCEPT ![t] =
                                  SetPolicyCall(l, l.data, l.new_policy, "sg_after")]
                      /\ errs' = errs \cup DerefErrs(l.data)
                      /\ UNCHANGED pol
              /\ UNCHANGED << cpu_policy_rwsem, intent >>
           \/ /\ l.pc = "sg_after"
              /\ cpu_policy_rwsem' =
                    unlock_policy_rwsem_write(cpu_policy_rwsem,
                                              cpufreq_policy_cpu, d.cpu)
              /\ pol' = [pol EXCEPT ![l.data] =
                           kobject_put([d EXCEPT !.user_policy.governor =
                                                    d.governor])]
              /\ th' = [th EXCEPT ![t] =
                          Return([l EXCEPT !.refs = DropRef(@, l.data),
                                           !.new_policy = NoCand], l.ret)]
              /\ errs' = errs \cup PutErrs(d) \cup DerefErrs(l.data)
                              \cup UnlockWriteErrs(cpu_policy_rwsem,
                                                   cpufreq_policy_cpu, t, d.cpu)
              /\ UNCHANGED intent
    /\ UNCHANGED << cpu_online_mask, cpufreq_driver, hotcpu_notifier,
                    cpufreq_cpu_data, cpufreq_policy_cpu, cpufreq_policy_save,
                    pm_qos, hw_freq, tlog, added >>

\* ------------------------------------------------------------ cpufreq_get
\* a call of cpufreq_get(cpu) by another subsystem
get(t, cpu) ==
    /\ th[t].pc = "idle"
    /\ cpufreq_driver # NoDriver
    /\ th' = [th EXCEPT ![t] =
                [Begin("get", "get_get") EXCEPT !.arg = cpu, !.cpu = cpu]]
    /\ Forget
    /\ UNCHANGED << cpu_online_mask, cpufreq_driver, hotcpu_notifier,
                    cpufreq_cpu_data, cpufreq_policy_cpu, cpufreq_policy_save,
                    cpu_policy_rwsem, pol, pm_qos, hw_freq, errs, tlog, added >>

\* policy = cpufreq_cpu_get(cpu); lock_policy_rwsem_read(cpu)
cpufreq_get(t) ==
    /\ th[t].pc = "get_get"
    /\ LET l == th[t]
           got == cpufreq_cpu_get_result(l.cpu)
       IN  /\ pol' = IF got = NULL THEN pol
                     ELSE [pol EXCEPT ![got] = kobject_get(@)]
           /\ th' = [th EXCEPT ![t] =
                       IF got = NULL THEN Return([l EXCEPT !.seen = 0], "OK")
                       ELSE LockCall([l EXCEPT !.policy = got,
                                               !.refs = Append(@, got)],
                                     "read", l.cpu, "get_locked")]
    /\ UNCHANGED << cpu_online_mask, cpufreq_driver, hotcpu_notifier,
                    cpufreq_cpu_data, cpufreq_policy_cpu, cpufreq_policy_save,
                    cpu_policy_rwsem, pm_qos, hw_freq, errs, tlog, intent,
                    added >>

\* a __cpufreq_get that repairs the frequency and queues no work
cpufreq_get_locked_NoWork(t) ==
    /\ th[t].pc = "get_locked"
    /\ LET l == th[t]
           held == l.policy
           p == cpufreq_cpu_data[l.cpu]
           ret_freq == hw_freq[l.cpu]
           desync == p # NULL /\ ret_freq # 0 /\ pol[p].cur # 0
                     /\ ret_freq # pol[p].cur
           pol1 == IF desync
                   THEN OutOfSyncPolicies(l.cpu, ret_freq)
                   ELSE pol
           out == [l EXCEPT !.refs = DropRef(@, held)]
       IN  IF l.lkret # 0
           THEN /\ pol' = [pol EXCEPT ![held] = kobject_put(@)]
                /\ errs' = errs \cup PutErrs(pol[held])
                /\ th' = [th EXCEPT ![t] = Return([out EXCEPT !.seen = 0], "OK")]
                /\ UNCHANGED << tlog, cpu_policy_rwsem >>
           ELSE /\ pol' = [pol1 EXCEPT ![held] = kobject_put(@)]
                /\ tlog' = IF desync
                           THEN tlog \o OutOfSyncNotes(l.cpu, pol[p].cur, ret_freq)
                           ELSE tlog
                /\ cpu_policy_rwsem' =
                      unlock_policy_rwsem_read(cpu_policy_rwsem,
                                               cpufreq_policy_cpu, t, l.cpu)
                /\ errs' = errs \cup DerefErrs(p) \cup PutErrs(pol[held])
                                \cup UnlockReadErrs(cpu_policy_rwsem,
                                                    cpufreq_policy_cpu, t, l.cpu)
                /\ th' = [th EXCEPT ![t] =
                            Return([out EXCEPT !.seen = ret_freq], "OK")]
    /\ UNCHANGED << cpu_online_mask, cpufreq_driver, hotcpu_notifier,
                    cpufreq_cpu_data, cpufreq_policy_cpu, cpufreq_policy_save,
                    pm_qos, hw_freq, intent, added >>

\* __cpufreq_get(cpu) under the read lock: ->get(cpu) against policy->cur of
\* per_cpu(cpufreq_cpu_data, cpu); a difference goes to cpufreq_out_of_sync
\* and queues policy->update; then unlock and cpufreq_cpu_put
cpufreq_get_locked(t) ==
    /\ th[t].pc = "get_locked"
    /\ LET l == th[t]
           held == l.policy
           p == cpufreq_cpu_data[l.cpu]
           ret_freq == hw_freq[l.cpu]
           desync == p # NULL /\ ret_freq # 0 /\ pol[p].cur # 0
                     /\ ret_freq # pol[p].cur
           pol1 == IF desync
                   THEN [OutOfSyncPolicies(l.cpu, ret_freq) EXCEPT
                            ![p].update = TRUE]
                   ELSE pol
           out == [l EXCEPT !.refs = DropRef(@, held)]
       IN  IF l.lkret # 0
           THEN /\ pol' = [pol EXCEPT ![held] = kobject_put(@)]
                /\ errs' = errs \cup PutErrs(pol[held])
                /\ th' = [th EXCEPT ![t] = Return([out EXCEPT !.seen = 0], "OK")]
                /\ UNCHANGED << tlog, cpu_policy_rwsem >>
           ELSE /\ pol' = [pol1 EXCEPT ![held] = kobject_put(@)]
                /\ tlog' = IF desync
                           THEN tlog \o OutOfSyncNotes(l.cpu, pol[p].cur, ret_freq)
                           ELSE tlog
                /\ cpu_policy_rwsem' =
                      unlock_policy_rwsem_read(cpu_policy_rwsem,
                                               cpufreq_policy_cpu, t, l.cpu)
                /\ errs' = errs \cup DerefErrs(p) \cup PutErrs(pol[held])
                                \cup UnlockReadErrs(cpu_policy_rwsem,
                                                    cpufreq_policy_cpu, t, l.cpu)
                /\ th' = [th EXCEPT ![t] =
                            Return([out EXCEPT !.seen = ret_freq], "OK")]
    /\ UNCHANGED << cpu_online_mask, cpufreq_driver, hotcpu_notifier,
                    cpufreq_cpu_data, cpufreq_policy_cpu, cpufreq_policy_save,
                    pm_qos, hw_freq, intent, added >>

\* the clock of cpu's domain changes behind the core's back
hw_change(cpu, f) ==
    /\ cpufreq_driver # NoDriver
    /\ hw_freq[cpu] # f
    /\ hw_freq' = [j \in CPUS |->
                      IF j \in DriverCpus(cpufreq_driver, cpu) THEN f
                      ELSE hw_freq[j]]
    /\ UNCHANGED << cpu_online_mask, cpufreq_driver, hotcpu_notifier,
                    cpufreq_cpu_data, cpufreq_policy_cpu, cpufreq_policy_save,
                    cpu_policy_rwsem, pol, pm_qos, th, errs, tlog, intent,
                    added >>

\* ---------------------------------------------------------------- PM QoS
\* a PM QoS request changes the aggregate floor or ceiling; the notifier
\* chain then runs cpu_freq_notify
pm_qos_update(t, kind, v) ==
    /\ th[t].pc = "idle"
    /\ pm_qos[kind] # v
    /\ pm_qos' = [pm_qos EXCEPT ![kind] = v]
    /\ th' = [th EXCEPT ![t] =
                [Begin("pm_qos", "qos_loop") EXCEPT !.js = cpu_online_mask]]
    /\ Forget
    /\ UNCHANGED << cpu_online_mask, cpufreq_driver, hotcpu_notifier,
                    cpufreq_cpu_data, cpufreq_policy_cpu, cpufreq_policy_save,
                    cpu_policy_rwsem, pol, hw_freq, errs, tlog, added >>

\* the notifier chain runs cpu_freq_notify once more with the aggregate
\* unchanged: by the caller whose run has just returned, or by another
\* caller while such a second run is under way
cpu_freq_notify_again(t) ==
    /\ \/ th[t].pc = "done" /\ th[t].op = "pm_qos"
       \/ /\ th[t].pc = "idle"
          /\ \E u \in Threads \ {t} : th[u].op = "pm_qos_again"
    /\ th' = [th EXCEPT ![t] =
                [Begin("pm_qos_again", "qos_loop") EXCEPT
                    !.js = cpu_online_mask]]
    /\ UNCHANGED << cpu_online_mask, cpufreq_driver, hotcpu_notifier,
                    cpufreq_cpu_data, cpufreq_policy_cpu, cpufreq_policy_save,
                    cpu_policy_rwsem, pol, pm_qos, hw_freq, errs, tlog, intent,
                    added >>

\* cpu_freq_notify, for_each_online_cpu: policy = cpufreq_cpu_get(cpu);
\* cpufreq_update_policy(policy->cpu)
cpu_freq_notify(t) ==
    /\ th[t].pc = "qos_loop"
    /\ LET l == th[t]
           cpu == MinOf(l.js)
           rest == [l EXCEPT !.js = @ \ {cpu}]
           got == cpufreq_cpu_get_result(cpu)
       IN  IF l.js = {}
           THEN /\ th' = [th EXCEPT ![t] = Return(l, "OK")]
                /\ UNCHANGED pol
           ELSE IF got = NULL
           THEN /\ th' = [th EXCEPT ![t] = rest]
                /\ UNCHANGED pol
           ELSE /\ pol' = [pol EXCEPT ![got] = kobject_get(@)]
                /\ th' = [th EXCEPT ![t] =
                            UpdateCall([rest EXCEPT !.policy = got,
                                                    !.refs = Append(@, got)],
                                       pol[got].cpu, "qos_put")]
    /\ UNCHANGED << cpu_online_mask, cpufreq_driver, hotcpu_notifier,
                    cpufreq_cpu_data, cpufreq_policy_cpu, cpufreq_policy_save,
                    cpu_policy_rwsem, pm_qos, hw_freq, errs, tlog, intent,
                    added >>

\* cpu_freq_notify: cpufreq_cpu_put(policy)
cpu_freq_notify_put(t) ==
    /\ th[t].pc = "qos_put"
    /\ LET l == th[t]
       IN  /\ pol' = [pol EXCEPT ![l.policy] = kobject_put(@)]
           /\ errs' = errs \cup PutErrs(pol[l.policy])
           /\ th' = [th EXCEPT ![t] =
                       [l EXCEPT !.pc = "qos_loop", !.policy = NULL,
                                 !.refs = DropRef(@, l.policy)]]
    /\ UNCHANGED << cpu_online_mask, cpufreq_driver, hotcpu_notifier,
                    cpufreq_cpu_data, cpufreq_policy_cpu, cpufreq_policy_save,
                    cpu_policy_rwsem, pm_qos, hw_freq, tlog, intent, added >>

\* ----------------------------------------------------------- specifications
\* the failures the environment can inject: ->init, the sysfs calls of
\* cpufreq_add_dev_interface, the link of a joining CPU, governor START,
\* ->verify, and the caps of the policy notifiers
FaultyEnv ==
    [init |-> BOOLEAN, sysfs |-> {"none", "kobj", "file", "link"},
     link |-> BOOLEAN, start |-> StartFailures, verify |-> BOOLEAN,
     caps |-> NotifierCaps, maxlock |-> {0}]

LifecycleStep(t, env) ==
    \/ lock_policy_rwsem_resolve(t)
    \/ lock_policy_rwsem(t)
    \/ set_policy_begin(t, env)
    \/ set_policy_governor(t)
    \/ set_policy_start(t, env)
    \/ cpufreq_add_dev(t)
    \/ cpufreq_add_dev_policy(t, env)
    \/ cpufreq_add_dev_join(t, env)
    \/ cpufreq_add_dev_interface(t, env)
    \/ cpufreq_add_dev_finish(t)
    \/ cpufreq_add_dev_unwind(t)
    \/ cpufreq_remove_dev(t, env)
    \/ cpufreq_remove_dev_link(t)
    \/ cpufreq_remove_dev_link_put(t)
    \/ cpufreq_remove_dev_stop(t)
    \/ cpufreq_remove_dev_wait(t)
    \/ cpufreq_remove_dev_exit(t)
    \/ cpufreq_remove_dev_relock(t)
    \/ cpufreq_remove_dev_free(t)
    \/ cpufreq_register_driver_loop(t)
    \/ cpufreq_remove_dev_locked(t)
    \/ cpu_down(t)
    \/ Finish(t)

LifecycleStart ==
    \/ \E drv \in Drivers : cpufreq_register_driver(drv)
    \/ \E c \in CPUS : cpu_up(c)
    \/ \E c \in CPUS : cpu_down_prepare(c)
    \/ \E c \in CPUS : cpu_hotplug_unnotified(c)

\* a recorded fault (oops, BUG, corrupted count or lock) ends the run: what
\* the kernel does after it is not defined by the code
Sane == errs = {}

NextLifecycle ==
    /\ Sane
    /\ UNCHANGED gov_fallback
    /\ (LifecycleStart \/ \E t \in Threads : LifecycleStep(t, FaultyEnv))

SpecLifecycle == Init /\ [][NextLifecycle]_vars

\* registration and hotplug together with driver unregistration, which
\* removes the device of every CPU
NextRegistration ==
    /\ Sane
    /\ UNCHANGED gov_fallback
    /\ \/ LifecycleStart
       \/ cpufreq_unregister_driver
       \/ \E t \in Threads :
             LifecycleStep(t, FaultyEnv) \/ cpufreq_unregister_loop(t)

SpecRegistration == Init /\ [][NextRegistration]_vars

\* ------------------------------------------------------ policy operations
\* no failure is injected
QuietEnv ==
    [init |-> {FALSE}, sysfs |-> {"none"}, link |-> {FALSE}, start |-> {{}},
     verify |-> {FALSE}, caps |-> {NoCpu}, maxlock |-> {0}]

\* what a change of bounds can meet: ->verify failing, a policy notifier
\* capping the candidate, the frequency lock of the platform
BoundsEnv ==
    [init |-> {FALSE}, sysfs |-> {"none"}, link |-> {FALSE}, start |-> {{}},
     verify |-> BOOLEAN, caps |-> NotifierCaps, maxlock |-> {0, HwMinFreq + 1}]

\* what a change of governor can meet: START callbacks failing
GovernorEnv ==
    [init |-> {FALSE}, sysfs |-> {"none"}, link |-> {FALSE},
     start |-> StartFailures, verify |-> {FALSE}, caps |-> {NoCpu},
     maxlock |-> {0}]

\* the values written to the bound files: below, within and above the
\* hardware range
StoreVals == {0, HwMinFreq, MaxFreq}

\* the aggregate PM QoS floors and ceilings requested
QosVals == [min |-> {0, HwMinFreq + 1}, max |-> {HwMinFreq + 1, MaxFreq}]

\* the steps of registration with no failure injected, and of Policy-Set
\* under env for the other threads
RegisterStep(t, env) ==
    \/ lock_policy_rwsem_resolve(t)
    \/ lock_policy_rwsem(t)
    \/ set_policy_begin(t, IF t = "hp" THEN QuietEnv ELSE env)
    \/ set_policy_governor(t)
    \/ set_policy_start(t, IF t = "hp" THEN QuietEnv ELSE env)
    \/ cpufreq_add_dev(t)
    \/ cpufreq_add_dev_policy(t, QuietEnv)
    \/ cpufreq_add_dev_interface(t, QuietEnv)
    \/ cpufreq_add_dev_finish(t)
    \/ cpufreq_register_driver_loop(t)
    \/ Finish(t)

\* the steps of a write to a bound file of a policy
StoreFreqStep(t, env) ==
    \/ store(t)
    \/ store_locked(t)
    \/ store_one(t, env)
    \/ store_one_finish(t)
    \/ store_unlock(t)

\* the steps of a write to scaling_governor
StoreGovernorStep(t) ==
    \/ store(t)
    \/ store_locked(t)
    \/ store_scaling_governor(t)
    \/ store_scaling_governor_finish(t)
    \/ store_unlock(t)

\* the steps of cpufreq_update_policy and of the PM QoS notifier
UpdateStep(t) ==
    \/ cpufreq_update_policy(t)
    \/ cpufreq_update_policy_locked(t)
    \/ cpufreq_update_policy_finish(t)
    \/ cpu_freq_notify(t)
    \/ cpu_freq_notify_put(t)

\* the policy CPU 0 is bound to: the files under cpu0/cpufreq
Cpu0Policy == cpufreq_cpu_data[0]

\* bounds: after the driver of a single domain has registered, one thread
\* writes the bound files of cpu0/cpufreq and changes PM QoS
NextPolicy ==
    /\ Sane
    /\ UNCHANGED gov_fallback
    /\ \/ cpufreq_register_driver("drv_shared")
       \/ /\ hotcpu_notifier /\ Cpu0Policy # NULL
          /\ \E a \in FreqAttrs, v \in StoreVals :
                sysfs_store("u1", Cpu0Policy, a, v, NoGov)
       \/ /\ hotcpu_notifier
          /\ \E k \in {"min", "max"} : \E v \in QosVals[k] :
                pm_qos_update("u1", k, v)
       \/ \E t \in Threads :
             \/ RegisterStep(t, BoundsEnv)
             \/ StoreFreqStep(t, BoundsEnv)
             \/ UpdateStep(t)

SpecPolicy == Init /\ [][NextPolicy]_vars

\* governors: after the driver has registered, one thread writes
\* scaling_governor of cpu0/cpufreq and re-evaluates policies
NextGovernor ==
    /\ Sane
    /\ UNCHANGED gov_fallback
    /\ \/ \E drv \in Drivers : cpufreq_register_driver(drv)
       \/ /\ hotcpu_notifier /\ Cpu0Policy # NULL
          /\ \E g \in Governors :
                sysfs_store("u1", Cpu0Policy, "scaling_governor", 0, g)
       \/ hotcpu_notifier /\ \E c \in CPUS : update_policy("u1", c)
       \/ \E t \in Threads :
             \/ RegisterStep(t, GovernorEnv)
             \/ StoreGovernorStep(t)
             \/ cpufreq_update_policy(t)
             \/ cpufreq_update_policy_locked(t)
             \/ cpufreq_update_policy_finish(t)

SpecGovernor == Init /\ [][NextGovernor]_vars

\* the bound written before a CPU is cycled: inside the hardware range, off
\* both of its limits
ReaddVals == {HwMinFreq + 1}

\* offline/online cycles: after the driver with a two-CPU and a one-CPU
\* domain has registered, one thread sets governor and bounds of a policy
\* while every CPU is online, then one CPU at a time is taken down and
\* brought back
NextReadd ==
    /\ Sane
    /\ UNCHANGED gov_fallback
    /\ \/ cpufreq_register_driver("drv_pair")
       \/ /\ hotcpu_notifier /\ th["hp"].pc = "idle"
          /\ cpu_online_mask = CPUS
          /\ \E c \in CPUS :
                /\ cpufreq_cpu_data[c] # NULL
                /\ sysfs_store("u1", cpufreq_cpu_data[c], "scaling_governor",
                               0, "powersave")
       \/ /\ hotcpu_notifier /\ th["hp"].pc = "idle"
          /\ cpu_online_mask = CPUS
          /\ \E c \in CPUS, a \in FreqAttrs, v \in ReaddVals :
                /\ cpufreq_cpu_data[c] # NULL
                /\ sysfs_store("u1", cpufreq_cpu_data[c], a, v, NoGov)
       \/ /\ th["u1"].pc = "idle" /\ cpu_online_mask = CPUS
          /\ \E c \in CPUS : cpu_down_prepare(c)
       \/ th["u1"].pc = "idle" /\ \E c \in CPUS : cpu_up(c)
       \/ \E t \in Threads :
             \/ RegisterStep(t, QuietEnv)
             \/ StoreFreqStep(t, QuietEnv)
             \/ store_scaling_governor(t)
             \/ store_scaling_governor_finish(t)
             \/ cpufreq_remove_dev(t, QuietEnv)
             \/ cpufreq_remove_dev_link(t)
             \/ cpufreq_remove_dev_link_put(t)
             \/ cpufreq_remove_dev_stop(t)
             \/ cpufreq_remove_dev_wait(t)
             \/ cpufreq_remove_dev_exit(t)
             \/ cpufreq_remove_dev_relock(t)
             \/ cpufreq_remove_dev_free(t)
             \/ cpufreq_add_dev_join(t, QuietEnv)
             \/ cpufreq_remove_dev_locked(t)
             \/ cpu_down(t)

SpecReadd == Init /\ [][NextReadd]_vars

\* desync: the clock of a domain changes behind the core's back, one thread
\* then queries the frequency of a CPU with cpufreq_get, and the work item
\* that query queues runs; the hardware stays put once a transition has been
\* reported
NextDesync ==
    /\ Sane
    /\ UNCHANGED gov_fallback
    /\ \/ cpufreq_register_driver("drv_pair")
       \/ tlog = << >> /\ \E c \in CPUS, f \in HwFreqs : hw_change(c, f)
       \/ /\ hotcpu_notifier /\ tlog = << >>
          /\ \E c \in CPUS : get("u1", c)
       \/ \E p \in PIDS : handle_update(p)
       \/ \E t \in Threads :
             \/ RegisterStep(t, QuietEnv)
             \/ cpufreq_get(t)
             \/ cpufreq_get_locked(t)
             \/ cpufreq_update_policy(t)
             \/ cpufreq_update_policy_locked(t)
             \/ cpufreq_update_policy_finish(t)

SpecDesync == Init /\ [][NextDesync]_vars

\* the same, with the scheduler's guarantees: a thread that can run gets to
\* run, and a queued work item is executed by the workqueue
SpecDesyncFair ==
    /\ SpecDesync
    /\ \A t \in Threads :
          WF_vars(/\ Sane
                  /\ UNCHANGED gov_fallback
                  /\ \/ RegisterStep(t, QuietEnv)
                     \/ cpufreq_get(t)
                     \/ cpufreq_get_locked(t)
                     \/ cpufreq_update_policy(t)
                     \/ cpufreq_update_policy_locked(t)
                     \/ cpufreq_update_policy_finish(t))
    /\ \A p \in PIDS : WF_vars(Sane /\ UNCHANGED gov_fallback /\ handle_update(p))

\* readers and writers: after the driver of a single domain has registered,
\* one thread writes the files of cpu0/cpufreq and the all_cpus files of the
\* global kobject or re-evaluates the policy, another reads cpu0/cpufreq
NextReaders ==
    /\ Sane
    /\ UNCHANGED gov_fallback
    /\ \/ cpufreq_register_driver("drv_shared")
       \/ /\ hotcpu_notifier /\ Cpu0Policy # NULL
          /\ \E a \in FreqAttrs :
                sysfs_store("u1", Cpu0Policy, a, HwMinFreq + 1, NoGov)
       \/ /\ hotcpu_notifier /\ Cpu0Policy # NULL
          /\ sysfs_store("u1", Cpu0Policy, "scaling_governor", 0, "powersave")
       \/ /\ hotcpu_notifier
          /\ \E a \in FreqAttrs : store_scaling_freq("u1", a, HwMinFreq + 1)
       \/ hotcpu_notifier /\ update_policy("u1", 0)
       \/ /\ hotcpu_notifier /\ Cpu0Policy # NULL
          /\ \E a \in ShowAttrs : sysfs_show("u2", Cpu0Policy, a)
       \/ \E t \in Threads :
             \/ RegisterStep(t, QuietEnv)
             \/ StoreFreqStep(t, QuietEnv)
             \/ store_scaling_governor(t)
             \/ store_scaling_governor_finish(t)
             \/ store_scaling_freq_loop(t)
             \/ cpufreq_update_policy(t)
             \/ cpufreq_update_policy_locked(t)
             \/ cpufreq_update_policy_finish(t)
             \/ show(t)
             \/ show_locked(t)

SpecReaders == Init /\ [][NextReaders]_vars

\* the link of a joining CPU may fail, nothing else does
LinkEnv ==
    [init |-> {FALSE}, sysfs |-> {"none"}, link |-> BOOLEAN, start |-> {{}},
     verify |-> {FALSE}, caps |-> {NoCpu}, maxlock |-> {0}]

\* references: CPUs of one domain come and go while another thread looks a
\* policy up through cpufreq_get and cpufreq_update_policy
NextRefs ==
    /\ Sane
    /\ UNCHANGED gov_fallback
    /\ \/ cpufreq_register_driver("drv_shared")
       \/ \E c \in CPUS : cpu_up(c)
       \/ \E c \in CPUS : cpu_down_prepare(c)
       \/ hotcpu_notifier /\ \E c \in CPUS : get("u1", c)
       \/ hotcpu_notifier /\ \E c \in CPUS : update_policy("u1", c)
       \/ \E t \in Threads :
             \/ LifecycleStep(t, LinkEnv)
             \/ cpufreq_get(t)
             \/ cpufreq_get_locked(t)
             \/ cpufreq_update_policy(t)
             \/ cpufreq_update_policy_locked(t)
             \/ cpufreq_update_policy_finish(t)

SpecRefs == Init /\ [][NextRefs]_vars

\* lookups: cpufreq_get is called for any CPU id, in range or not, while the
\* driver is registered and unregistered and CPUs come and go
NextLookup ==
    /\ Sane
    /\ UNCHANGED gov_fallback
    /\ \/ cpufreq_register_driver("drv_pair")
       \/ cpufreq_unregister_driver
       \/ \E c \in CPUS : cpu_up(c)
       \/ \E c \in CPUS : cpu_down_prepare(c)
       \/ \E c \in 0 .. NCpus : get("u1", c)
       \/ \E t \in Threads :
             \/ LifecycleStep(t, QuietEnv)
             \/ cpufreq_unregister_loop(t)
             \/ cpufreq_get(t)
             \/ cpufreq_get_locked(t)

SpecLookup == Init /\ [][NextLookup]_vars

\* registrations: two callers register drivers, one after the other or at
\* the same time, and a registered driver is unregistered again
NextDrivers ==
    /\ Sane
    /\ UNCHANGED gov_fallback
    /\ \/ \E t \in {"hp", "u1"}, drv \in Drivers :
             cpufreq_register_driver_claim(t, drv)
       \/ cpufreq_unregister_driver
       \/ \E t \in Threads :
             LifecycleStep(t, FaultyEnv) \/ cpufreq_unregister_loop(t)

SpecDrivers == Init /\ [][NextDrivers]_vars

\* governor change by another subsystem: after the driver of a single domain
\* has registered, one thread writes the bound files of cpu0/cpufreq while
\* another calls cpufreq_set_gov
NextSetGov ==
    /\ Sane
    /\ UNCHANGED gov_fallback
    /\ \/ cpufreq_register_driver("drv_shared")
       \/ /\ hotcpu_notifier /\ Cpu0Policy # NULL
          /\ \E a \in FreqAttrs, v \in StoreVals :
                sysfs_store("u1", Cpu0Policy, a, v, NoGov)
       \/ /\ hotcpu_notifier
          /\ cpufreq_set_gov("u2")
       \/ \E t \in Threads :
             RegisterStep(t, QuietEnv) \/ StoreFreqStep(t, QuietEnv)

SpecSetGov == Init /\ [][NextSetGov]_vars

\* teardown with work in flight: after registration the hardware frequency
\* may change behind the core, one thread calls cpufreq_get (which queues
\* policy->update on a difference), the work item runs handle_update, and
\* CPUs are taken offline
NextTeardown ==
    /\ Sane
    /\ UNCHANGED gov_fallback
    /\ \/ cpufreq_register_driver("drv_shared")
       \/ tlog = << >> /\ \E c \in CPUS, f \in HwFreqs : hw_change(c, f)
       \/ /\ hotcpu_notifier /\ tlog = << >>
          /\ \E c \in CPUS : get("u1", c)
       \/ \E p \in PIDS : handle_update(p)
       \/ \E c \in CPUS : cpu_down_prepare(c)
       \/ \E t \in Threads :
             \/ RegisterStep(t, QuietEnv)
             \/ cpufreq_get(t)
             \/ cpufreq_get_locked(t)
             \/ cpufreq_update_policy(t)
             \/ cpufreq_update_policy_locked(t)
             \/ cpufreq_update_policy_finish(t)
             \/ cpufreq_remove_dev(t, QuietEnv)
             \/ cpufreq_remove_dev_link(t)
             \/ cpufreq_remove_dev_link_put(t)
             \/ cpufreq_remove_dev_stop(t)
             \/ cpufreq_remove_dev_wait(t)
             \/ cpufreq_remove_dev_exit(t)
             \/ cpufreq_remove_dev_relock(t)
             \/ cpufreq_remove_dev_free(t)
             \/ cpufreq_add_dev_join(t, QuietEnv)
             \/ cpufreq_remove_dev_locked(t)
             \/ cpu_down(t)

SpecTeardown == Init /\ [][NextTeardown]_vars

\* a registration that races with CPU hotplug: the hotplug notifier is not
\* registered before the devices are added, so CPUs come and go while
\* cpufreq_add_dev runs for them or for their siblings
NextHotplugRace ==
    /\ Sane
    /\ UNCHANGED gov_fallback
    /\ \/ \E drv \in Drivers : cpufreq_register_driver_claim("u1", drv)
       \/ /\ th["u1"].op = "register"
          /\ \E c \in CPUS : cpu_hotplug_unnotified(c)
       \/ \E t \in Threads :
             RegisterStep(t, QuietEnv) \/ cpufreq_add_dev_join(t, QuietEnv)

SpecHotplugRace == Init /\ [][NextHotplugRace]_vars

\* PM QoS: a thread writes the bound files and changes the aggregate floor
\* and ceiling; after a run of the notifier it runs again, alone or together
\* with a run on a second thread, with nothing else changing meanwhile
NextQos ==
    /\ Sane
    /\ UNCHANGED gov_fallback
    /\ \/ \E drv \in Drivers : cpufreq_register_driver(drv)
       \/ /\ hotcpu_notifier /\ Cpu0Policy # NULL /\ th["u2"].pc = "idle"
          /\ \E a \in FreqAttrs, v \in StoreVals :
                sysfs_store("u1", Cpu0Policy, a, v, NoGov)
       \/ /\ hotcpu_notifier /\ th["u2"].pc = "idle"
          /\ \E k \in {"min", "max"} : \E v \in QosVals[k] :
                pm_qos_update("u1", k, v)
       \/ \E t \in UserThreads : cpu_freq_notify_again(t)
       \/ \E t \in Threads :
             \/ RegisterStep(t, QuietEnv)
             \/ StoreFreqStep(t, QuietEnv)
             \/ UpdateStep(t)

SpecQos == Init /\ [][NextQos]_vars

\* ------------------------------------------------------------------ claims
\* the CPUs that share a clock domain with cpu under the registered driver
SameDomain(a, b) ==
    cpufreq_driver # NoDriver /\ b \in DriverCpus(cpufreq_driver, a)

\* C1: two CPUs of one clock domain that are both bound are bound to the
\* same policy: lookup(a) = lookup(b), and no two distinct policies are bound
\* to CPUs of one domain at the same time.
C1_OnePolicyPerDomain ==
    \A a, b \in CPUS :
        (/\ SameDomain(a, b)
         /\ cpufreq_cpu_get_result(a) # NULL
         /\ cpufreq_cpu_get_result(b) # NULL)
        => cpufreq_cpu_get_result(a) = cpufreq_cpu_get_result(b)

\* C1 witness: Add of a CPU just succeeded by joining the policy of another
\* CPU of its domain.
C1_Witness ==
    /\ th["hp"].pc = "done" /\ th["hp"].op = "cpu_up" /\ th["hp"].ret = "OK"
    /\ \E a \in CPUS \ {th["hp"].arg} :
          /\ SameDomain(a, th["hp"].arg)
          /\ cpufreq_cpu_data[a] # NULL
          /\ cpufreq_cpu_data[a] = cpufreq_cpu_data[th["hp"].arg]
          /\ pol[cpufreq_cpu_data[a]].cpu = a

\* C2: while no Add or Remove is in progress, every online CPU whose Add
\* succeeded is bound to a policy, and every CPU in the cpu set of a bound
\* policy is bound to that policy.
C2_RegistryConsistent ==
    th["hp"].pc = "idle" =>
        /\ \A c \in added \cap cpu_online_mask : cpufreq_cpu_data[c] # NULL
        /\ \A b \in CPUS :
              cpufreq_cpu_data[b] # NULL =>
                  \A c \in pol[cpufreq_cpu_data[b]].cpus :
                      cpufreq_cpu_data[c] = cpufreq_cpu_data[b]

\* the policy of the __cpufreq_set_policy call thread t has just returned
\* from (NULL when t is not right after such a call)
SetPolicyDone(t) ==
    IF th[t].pc \in {"st_after", "st_gov_after", "add_after_set"}
    THEN th[t].policy
    ELSE IF th[t].pc = "up_after" THEN th[t].data ELSE NULL

\* C3: after every __cpufreq_set_policy call that returns success the live
\* bounds are contained in the hardware range:
\* cpuinfo.min_freq <= min <= max <= cpuinfo.max_freq.
C3_BoundsContained ==
    \A t \in Threads :
        (SetPolicyDone(t) # NULL /\ th[t].ret = "OK") =>
            LET d == pol[SetPolicyDone(t)]
            IN  /\ d.cpuinfo.min_freq <= d.min
                /\ d.min <= d.max
                /\ d.max <= d.cpuinfo.max_freq

\* C3 witness: a successful call whose candidate asked for a maximum above
\* the hardware range while PM QoS imposed a floor.
C3_Witness ==
    \E t \in Threads :
        /\ th[t].pc = "st_after" /\ th[t].ret = "OK"
        /\ th[t].new_policy.max > pol[th[t].policy].cpuinfo.max_freq
        /\ pm_qos.min > 0
        /\ pol[th[t].policy].max = pol[th[t].policy].cpuinfo.max_freq

\* the user-bound file that belongs to a scaling bound file
PolicyAttr(attr) ==
    IF attr = "scaling_min_freq" THEN "policy_min_freq" ELSE "policy_max_freq"

\* thread t is in store() right after a successful store_scaling_min_freq /
\* store_scaling_max_freq of a value within the hardware range
StoredBound(t) ==
    /\ th[t].pc = "st_unlock" /\ th[t].ret = "OK"
    /\ th[t].attr \in FreqAttrs
    /\ th[t].val \in HwFreqs

Readded ==
    /\ th["hp"].pc = "done" /\ th["hp"].op = "cpu_up"
    /\ th["hp"].ret = "OK"
    /\ intent.st = "readded"

\* C6: Remove(c) followed by Add(c), with nothing else in between, yields a
\* policy for c with the governor and the user bounds the policy of c had
\* before the removal, whether c owned the policy or was a sibling.
C6_ReaddPreservesIntent ==
    Readded =>
        /\ cpufreq_cpu_data[intent.cpu] # NULL
        /\ LET d == pol[cpufreq_cpu_data[intent.cpu]]
           IN  /\ d.governor = intent.governor
               /\ d.user_policy.min = intent.min
               /\ d.user_policy.max = intent.max

\* C6 witness: the owner of a policy came back with a governor that is not
\* the default and with both user bounds off the hardware limits.
C6_Witness ==
    /\ Readded
    /\ cpufreq_cpu_data[intent.cpu] # NULL
    /\ pol[cpufreq_cpu_data[intent.cpu]].cpu = intent.cpu
    /\ intent.governor # CPUFREQ_DEFAULT_GOVERNOR
    /\ intent.min > HwMinFreq
    /\ intent.max < HwMaxFreq

\* a desync has been reported and everything it started has finished: the
\* query returned and the work item it queued has run
DesyncDone ==
    /\ tlog # << >>
    /\ \A t \in Threads : th[t].pc = "idle"
    /\ \A p \in PIDS : ~pol[p].update

\* the CPU whose query found the desync, and its policy
DesyncCpu == tlog[1].cpu
DesyncPolicy == pol[cpufreq_cpu_data[DesyncCpu]]

\* notifications i and i + 1 of the log are a PRECHANGE and a POSTCHANGE for
\* cpu that carry the same old frequency and the new frequency f
IsPair(i, cpu, f) ==
    /\ tlog[i].state = "PRECHANGE" /\ tlog[i + 1].state = "POSTCHANGE"
    /\ tlog[i].cpu = cpu /\ tlog[i + 1].cpu = cpu
    /\ tlog[i].old = tlog[i + 1].old
    /\ tlog[i].new = f /\ tlog[i + 1].new = f

\* C7: once the desync path and the work it queued have run, the
\* policy's cur is the frequency the hardware reported and the observers
\* got exactly one PRECHANGE and one POSTCHANGE, whichever CPU of the policy
\* was queried.
C7_OnePairAnyCpu ==
    DesyncDone =>
        /\ DesyncPolicy.cur = hw_freq[DesyncCpu]
        /\ Len(tlog) = 2
        /\ IsPair(1, DesyncCpu, hw_freq[DesyncCpu])

\* thread r is in show() with the read lock of policy p taken, about to run
\* the attribute's show function
Reading(r, p) ==
    th[r].pc = "sh_locked" /\ th[r].lkret = 0 /\ th[r].policy = p

\* thread w is inside __cpufreq_set_policy for policy p, past the commit of
\* the bounds and before the governor has been switched or told the limits
Mutating(w, p) ==
    th[w].pc \in {"sp_gov", "sp_start"} /\ th[w].data = p

\* C8: a show() on a policy never runs while a __cpufreq_set_policy call on
\* the same policy is between its first and its last write: what it reads is
\* all from before the call or all from after it.
C8_NoReadMidMutation ==
    \A r, w \in Threads, p \in PIDS : ~(Reading(r, p) /\ Mutating(w, p))

\* thread t holds a reference to policy p that it acquired through
\* cpufreq_cpu_get and has not released
Holds(t, p) == \E i \in 1 .. Len(th[t].refs) : th[t].refs[i] = p

\* C9: the storage of a policy is never freed while a reference acquired
\* through cpufreq_cpu_get is outstanding.
C9_NoFreeWhileReferenced ==
    \A p \in PIDS : pol[p].st = "freed" => \A t \in Threads : ~Holds(t, p)

\* thread t holds the rwsem of policy_cpu in the given mode
HoldsLock(sems, t, policy_cpu, mode) ==
    IF mode = "write" THEN sems[policy_cpu].w = t
    ELSE t \in sems[policy_cpu].r

\* the step of thread t in which lock_policy_rwsem_read / _write returns:
\* with 0 and the lock held when cpu is online once the rwsem is down, with
\* -1 and no lock held when it is not
LockReturns(t) ==
    LET l == th[t]
    IN  IF l.lkcpu \in cpu_online_mask
        THEN /\ th'[t].lkret = 0
             /\ HoldsLock(cpu_policy_rwsem', t, l.policy_cpu, l.lkmode)
        ELSE /\ th'[t].lkret = NoCpu
             /\ \A c \in CPUS :
                   /\ ~HoldsLock(cpu_policy_rwsem', t, c, l.lkmode)
                   /\ cpu_policy_rwsem'[c] = cpu_policy_rwsem[c]

\* C10: lock_policy_rwsem_read / _write (cpu) succeed only if cpu is online
\* when the rwsem has been taken; if cpu went offline after the rwsem was
\* resolved the call returns -1 and the caller holds no lock afterwards.
C10_LockFailsForOfflineCpu ==
    [][\A t \in Threads :
          (th[t].pc = "lock_down" /\ th'[t].pc # "lock_down")
              => LockReturns(t)]_vars

\* C10 witness: a lock call on a CPU that went offline after the lookup has
\* just failed, and the caller holds no lock.
C10_Witness ==
    \E t \in UserThreads :
        /\ th[t].pc \in {"up_locked", "get_locked"}
        /\ th[t].lkret = NoCpu
        /\ th[t].cpu \notin cpu_online_mask
        /\ \A c \in CPUS :
              cpu_policy_rwsem[c].w # t /\ t \notin cpu_policy_rwsem[c].r

\* C11: no thread delivers the governor STOP event to a policy while it
\* holds a policy rwsem: not the governor switch of __cpufreq_set_policy,
\* not the sibling join of cpufreq_add_dev_policy, not the sibling path or
\* the owner path of __cpufreq_remove_dev.
C11_NoStopUnderLock ==
    \A t \in Threads :
        LET l == th[t]
            StopsNext ==
                \/ /\ l.pc = "sp_gov"
                   /\ pol[l.data].governor # NoGov
                   /\ l.new_policy.governor # pol[l.data].governor
                \/ l.pc = "add_join"
                \/ /\ l.pc = "rm_begin"
                   /\ cpufreq_cpu_data[l.cpu] # NULL
                   /\ pol[cpufreq_cpu_data[l.cpu]].cpu # l.cpu
                \/ l.pc = "rm_stop"
        IN  StopsNext =>
                \A c \in CPUS :
                    /\ ~HoldsLock(cpu_policy_rwsem, t, c, "write")
                    /\ ~HoldsLock(cpu_policy_rwsem, t, c, "read")

\* C12: __cpufreq_remove_dev, entered with the write lock of cpu held,
\* returns on every path with the thread holding no policy rwsem, and no
\* unlock it made hit an rwsem the thread did not hold.
C12_RemoveReleasesLock ==
    \A t \in Threads :
        th[t].pc \in {"down_offline", "unreg_loop", "rm_free"} =>
            /\ \A c \in CPUS :
                  /\ ~HoldsLock(cpu_policy_rwsem, t, c, "write")
                  /\ ~HoldsLock(cpu_policy_rwsem, t, c, "read")
            /\ "unlock_not_held" \notin errs

\* C12 witness: the recursive __cpufreq_remove_dev after a promotion has
\* returned: the removed owner was bound again by the add of the promoted
\* sibling and has left its policy as a sibling.
C12_Witness ==
    /\ th["hp"].pc = "rm_free" /\ th["hp"].ret = "OK"
    /\ \E c \in CPUS :
          /\ cpufreq_cpu_data[c] # NULL
          /\ pol[cpufreq_cpu_data[c]].cpu = c
          /\ th["hp"].data # cpufreq_cpu_data[c]

\* C13: when cpufreq_add_dev, run for a CPU that came online, returns an
\* error, that CPU is unmapped in cpufreq_cpu_data and every CPU still
\* mapped is mapped to a live policy.
C13_FailedAddUnmaps ==
    (/\ th["hp"].pc = "done" /\ th["hp"].op = "cpu_up"
     /\ th["hp"].ret # "OK")
    => /\ cpufreq_cpu_data[th["hp"].arg] = NULL
       /\ \A c \in CPUS :
             cpufreq_cpu_data[c] # NULL =>
                 pol[cpufreq_cpu_data[c]].st = "live"

\* C14: whenever cpufreq_add_dev returns an error after the driver's ->init
\* succeeded, the driver's ->exit has been called exactly once for the policy
\* of that add.
C14_ExitOnceOnFailedAdd ==
    \A t \in Threads :
        LET l == th[t]
            AddReturned ==
                \/ l.pc = "done" /\ l.op = "cpu_up"
                \/ l.pc \in {"reg_loop", "rm_readd"}
        IN  (AddReturned /\ l.init_ok /\ l.ret # "OK") => l.exit_calls = 1

C16_OneDriver ==
    [][/\ cpufreq_driver # NoDriver =>
             cpufreq_driver' \in {cpufreq_driver, NoDriver}
       /\ \A t \in Threads :
             (/\ th[t].pc = "idle" /\ th'[t].op = "register"
              /\ cpufreq_driver # NoDriver)
             => /\ th'[t].pc = "done" /\ th'[t].ret = "EBUSY"
                /\ cpufreq_driver' = cpufreq_driver
       /\ \A t \in Threads : \A u \in Threads \ {t} :
             ~(/\ th'[t].op = "register" /\ th'[t].pc # "done"
               /\ th'[u].op = "register" /\ th'[u].pc # "done")]_vars

\* C16 witness: a second caller has been refused with -EBUSY while the first
\* one is still adding its CPUs.
C16_Witness ==
    /\ th["u1"].op = "register" /\ th["u1"].pc = "done"
    /\ th["u1"].ret = "EBUSY"
    /\ th["hp"].op = "register" /\ th["hp"].pc = "add_interface"
    /\ cpufreq_driver # NoDriver

\* C17 as stated: when __cpufreq_set_policy switched governors, the START of
\* the new governor failed and the governor installed before was restarted
\* without failure, the call returns success.
C17_RollbackNotReported ==
    \A t \in Threads :
        (/\ SetPolicyDone(t) # NULL
         /\ th[t].switch.failed # {}
         /\ th[t].switch.from # NoGov
         /\ th[t].switch.from \notin th[t].switch.failed) =>
            th[t].ret = "OK"

\* C17 amended: when the START of the new governor fails in a governor
\* switch, __cpufreq_set_policy returns -EINVAL, whether the restart of the
\* governor installed before succeeds or fails; that governor, when there was
\* one, is the policy's governor again.
C17_StartFailureReported ==
    \A t \in Threads :
        (SetPolicyDone(t) # NULL /\ th[t].switch.failed # {}) =>
            /\ th[t].ret = "EINVAL"
            /\ th[t].switch.from # NoGov =>
                   pol[SetPolicyDone(t)].governor = th[t].switch.from

\* C17 witness: a governor switch has just returned -EINVAL although the
\* governor installed before was restarted and runs.
C17_Witness ==
    \E t \in Threads :
        /\ SetPolicyDone(t) # NULL /\ th[t].ret = "EINVAL"
        /\ th[t].switch.failed # {}
        /\ th[t].switch.from # NoGov
        /\ th[t].switch.from \notin th[t].switch.failed
        /\ th[t].switch.from \in pol[SetPolicyDone(t)].running

\* C18: __cpufreq_remove_dev frees a policy only when no CPU other than the
\* one being removed is left in policy->cpus and every reference to the
\* kobject has been dropped; the removal of the owning CPU of a policy that
\* has siblings frees nothing.
C18_FreedOnlyWhenEmpty ==
    [][\A t \in Threads :
          (/\ th[t].pc \in {"rm_exit", "rm_free"}
           /\ pol[th[t].data].st = "live"
           /\ pol'[th[t].data].st # "live")
          => /\ pol[th[t].data].cpus \subseteq {th[t].cpu}
             /\ pol[th[t].data].kobj = 0]_vars

\* C19: whenever min, max, user_policy, governor, cur or cpus of a policy
\* that a CPU is bound to changes, the thread making the step holds the write
\* side of that policy's rwsem.
C19_WritesUnderWriteLock ==
    [][\A p \in PIDS :
          LET Fields(d) == << d.min, d.max, d.user_policy, d.governor, d.cur,
                              d.cpus >>
          IN  (/\ pol[p].st = "live" /\ pol'[p].st = "live"
               /\ \E c \in CPUS : cpufreq_cpu_data[c] = p
               /\ Fields(pol'[p]) # Fields(pol[p]))
              => \E t \in Threads :
                    /\ th'[t] # th[t]
                    /\ HoldsLock(cpu_policy_rwsem, t, pol[p].cpu, "write")]_vars

\* C20: __cpufreq_set_policy returns -EINVAL when the candidate's minimum,
\* clamped to the QoS limits, is above user_policy.max or its clamped maximum
\* is below user_policy.min; when it returns on this conflict or on a
\* rejection by ->verify, the live policy is what it was before the call and
\* the call has gone straight back to its caller, past every governor event.
C20_RejectionLeavesPolicy ==
    [][\A t \in Threads :
          (th[t].pc = "sp_begin" /\ th'[t].pc # "sp_begin") =>
              LET l == th[t]
                  d == pol[l.data]
                  qmin == Min2(pm_qos.min, d.user_policy.max)
                  qmax == Max2(pm_qos.max, d.user_policy.min)
                  cmin == Max2(l.new_policy.min, qmin)
                  cmax == Min2(l.new_policy.max, qmax)
                  Rejected == th'[t].pc # "sp_gov"
              IN  /\ (cmin > d.user_policy.max \/ cmax < d.user_policy.min)
                        => Rejected /\ th'[t].ret = "EINVAL"
                  /\ Rejected =>
                        /\ pol' = pol
                        /\ th'[t].pc = l.stk[Len(l.stk)].pc
                        /\ th'[t].ret \in {"EINVAL", "EDRIVER"}]_vars

\* C20 witness: a write of a minimum above the user's maximum has just been
\* rejected by __cpufreq_set_policy with -EINVAL.
C20_Witness ==
    \E t \in Threads :
        /\ th[t].pc = "st_after" /\ th[t].ret = "EINVAL"
        /\ th[t].new_policy.min > pol[th[t].policy].user_policy.max

\* C21: a run of cpu_freq_notify that follows a completed run, with the PM
\* QoS aggregate, the user's bounds and the hardware frequency unchanged in
\* between, changes the min, max and governor of no policy, whether it runs
\* alone or at the same time as another such run.
C21_QosNotifyIdempotent ==
    [][\A t \in Threads :
          (th[t].op = "pm_qos_again" /\ th'[t] # th[t]) =>
              \A p \in PIDS :
                  /\ pol'[p].min = pol[p].min
                  /\ pol'[p].max = pol[p].max
                  /\ pol'[p].governor = pol[p].governor]_vars

\* C21 witness: a second run has returned while another one is inside
\* __cpufreq_set_policy, and the floor of PM QoS holds a policy's minimum
\* above the user's.
C21_Witness ==
    /\ th["u1"].op = "pm_qos_again" /\ th["u1"].pc = "done"
    /\ th["u2"].op = "pm_qos_again" /\ th["u2"].pc = "sp_gov"
    /\ \E p \in PIDS :
          /\ pol[p].st = "live"
          /\ pol[p].min = pm_qos.min
          /\ pol[p].min > pol[p].user_policy.min

\* C22: cpufreq_register_driver (the drivers are not CPUFREQ_STICKY) does
\* not return success when the adds have left no CPU with a policy, and when
\* it returns its error cpufreq_driver is empty again and no CPU is bound.
C22_FailedRegisterLeavesNothing ==
    [][\A t \in Threads :
          LET l == th[t]
              NoneBound == \A c \in CPUS : cpufreq_cpu_data[c] = NULL
          IN  /\ (l.pc = "reg_loop" /\ l.js = {} /\ NoneBound
                    /\ th'[t] # l)
                  => th'[t].op = "register" /\ th'[t].pc = "unreg_loop"
              /\ (/\ l.op = "register" /\ l.pc # "done"
                  /\ th'[t].pc = "done" /\ th'[t].ret # "OK")
                  => /\ th'[t].ret = "ENODEV"
                     /\ cpufreq_driver' = NoDriver
                     /\ \A c \in CPUS : cpufreq_cpu_data'[c] = NULL]_vars

\* C22 witness: a registration has failed with -ENODEV and another caller
\* has taken the empty slot and is adding its CPUs.
C22_Witness ==
    /\ th["hp"].op = "register" /\ th["hp"].pc = "done"
    /\ th["hp"].ret = "ENODEV"
    /\ th["u1"].op = "register" /\ th["u1"].pc = "add_init"
    /\ cpufreq_driver # NoDriver

C24_StopBeforeStart ==
    [][\A t \in Threads :
          LET l == th[t]
              d == pol[l.data]
              e == pol'[l.data]
          IN  /\ (l.pc = "sp_gov" /\ th'[t] # l
                    /\ l.new_policy.governor # d.governor)
                  => /\ th'[t].pc = "sp_start"
                     /\ e.governor = l.new_policy.governor
                     /\ e.running = d.running \ {d.governor}
              /\ (l.pc = "sp_gov" /\ th'[t] # l
                    /\ l.new_policy.governor = d.governor)
                  => /\ th'[t].pc = l.stk[Len(l.stk)].pc
                     /\ e.governor = d.governor
                     /\ e.running = d.running
              /\ (l.pc = "sp_start" /\ th'[t] # l)
                  => /\ l.old_gov \notin d.running
                     /\ d.running \subseteq e.running]_vars

\* C24 witness: a governor switch is between its STOP and its START: the
\* governor that ran when the call began is stopped, the new one installed.
C24_Witness ==
    \E t \in Threads :
        /\ th[t].pc = "sp_start" /\ th[t].op = "store"
        /\ th[t].switch.was_running
        /\ th[t].old_gov \notin pol[th[t].data].running
        /\ pol[th[t].data].governor = th[t].new_policy.governor
        /\ pol[th[t].data].governor # th[t].old_gov

\* C25: when a step changes the governor field of a live policy, the governor
\* it replaces has been stopped by the end of that step, and a live policy
\* is freed only in a state where none of its governors runs.
C25_StoppedBeforeChangeOrFree ==
    [][\A p \in PIDS :
          pol[p].st = "live" =>
              /\ (pol'[p].st = "live" /\ pol'[p].governor # pol[p].governor)
                    => pol[p].governor \notin pol'[p].running
              /\ pol'[p].st # "live" => pol[p].running = {}]_vars

\* C25 witness: __cpufreq_remove_dev has stopped the governor of the policy
\* of the CPU going away and is about to call ->exit and free the policy.
C25_Witness ==
    \E t \in Threads :
        /\ th[t].pc = "rm_exit"
        /\ pol[th[t].data].st = "live"
        /\ pol[th[t].data].governor # NoGov
        /\ pol[th[t].data].running = {}
        /\ Cardinality(pol[th[t].data].cpus) = 1

\* C26: a governor whose max_transition_latency is non-zero and below the
\* policy's cpuinfo.transition_latency never runs on that policy: the START
\* of __cpufreq_set_policy on such a governor installs the build's fallback
\* governor in its place (or, START having failed, the old governor), and in
\* a build without fallback it returns -EINVAL and starts nothing but the old
\* governor of the rollback.
C26_SlowGovernorNeverStarted ==
    [][/\ \A p \in PIDS :
             pol'[p].st = "live" =>
                 \A g \in pol'[p].running :
                     ~ /\ MaxTransitionLatency(g) # 0
                       /\ pol'[p].cpuinfo.transition_latency
                              > MaxTransitionLatency(g)
       /\ \A t \in Threads :
             LET l == th[t]
                 d == pol[l.data]
                 e == pol'[l.data]
             IN  (/\ l.pc = "sp_start" /\ th'[t] # l
                  /\ MaxTransitionLatency(d.governor) # 0
                  /\ d.cpuinfo.transition_latency
                         > MaxTransitionLatency(d.governor))
                 => /\ d.governor \notin e.running
                    /\ gov_fallback # NoGov
                          => \/ e.governor = gov_fallback
                             \/ /\ th'[t].ret = "EINVAL"
                                /\ e.governor = l.old_gov
                    /\ gov_fallback = NoGov
                          => /\ th'[t].ret = "EINVAL"
                             /\ e.running \ d.running \subseteq {l.old_gov}
                             /\ e.governor = IF l.old_gov # NoGov
                                             THEN l.old_gov
                                             ELSE d.governor]_vars

\* C26 witness: the __cpufreq_set_policy of a store of "ondemand" on a policy
\* whose hardware latency exceeds that governor's limit has returned 0, and
\* the fallback governor runs in its place.
C26_Witness ==
    \E t \in Threads :
        /\ th[t].pc = "st_gov_after" /\ th[t].op = "store"
        /\ th[t].attr = "scaling_governor" /\ th[t].gov = "ondemand"
        /\ th[t].ret = "OK"
        /\ th[t].policy # NULL
        /\ pol[th[t].policy].st = "live"
        /\ pol[th[t].policy].cpuinfo.transition_latency
               > MaxTransitionLatency("ondemand")
        /\ pol[th[t].policy].governor = FallbackGovernor
        /\ FallbackGovernor \in pol[th[t].policy].running

\* C27: a step that delivers POSTCHANGE(freqs) calls the notifier chain while
\* policy->cur of the policy of freqs.cpu still has its old value; after the
\* step that policy's cur is freqs.new when a policy is bound to freqs.cpu and
\* is owned by it, and in every other case cur of every policy is unchanged;
\* cur of the other policies is unchanged in both cases.
C27_PostchangeWritesCur ==
    [][Len(tlog') > Len(tlog) =>
          LET post == tlog'[Len(tlog')]
              p == cpufreq_cpu_data[post.cpu]
              current == p # NULL /\ pol[p].cpu = post.cpu
          IN  /\ post.state = "POSTCHANGE"
              /\ post.cur = IF p # NULL THEN pol[p].cur ELSE 0
              /\ current => pol'[p].cur = post.new
              /\ \A q \in PIDS :
                    (q # p \/ ~current) => pol'[q].cur = pol[q].cur]_vars

\* C27 witness: POSTCHANGE was delivered for a CPU that is bound to a policy
\* it does not own, and for a CPU that owns its policy.
C27_Witness ==
    /\ \E i \in 1 .. Len(tlog) :
          /\ tlog[i].state = "POSTCHANGE"
          /\ cpufreq_cpu_data[tlog[i].cpu] # NULL
          /\ pol[cpufreq_cpu_data[tlog[i].cpu]].cpu # tlog[i].cpu
          /\ tlog[i].new # tlog[i].cur
    /\ \E i \in 1 .. Len(tlog) :
          /\ tlog[i].state = "POSTCHANGE"
          /\ cpufreq_cpu_data[tlog[i].cpu] # NULL
          /\ pol[cpufreq_cpu_data[tlog[i].cpu]].cpu = tlog[i].cpu
          /\ pol[cpufreq_cpu_data[tlog[i].cpu]].cur = tlog[i].new
          /\ tlog[i].new # tlog[i].cur

C29_PromotionRebinds ==
    [][\A t \in Threads :
          LET l == th[t]
              rest == pol[l.data].cpus
          IN  (l.pc = "rm_free" /\ th'[t] # l)
              => /\ cpufreq_cpu_data'[l.cpu] = NULL
                 /\ \E q \in PIDS :
                       /\ pol'[q].st = "live"
                       /\ pol'[q].cpu = MinOf(rest)
                       /\ pol'[q].cpus = rest
                       /\ \A j \in rest : cpufreq_cpu_data'[j] = q]_vars

\* C30: __cpufreq_remove_dev of a CPU that is bound to a policy it does not
\* own unmaps that CPU and takes it out of the policy's cpus, and changes
\* nothing else: the policy stays live with the same owner, user bounds,
\* bounds and governor, every other CPU keeps its binding, every other policy
\* is untouched, and a governor that ran before the call runs when it returns.
C30_SiblingLeaves ==
    [][\A t \in Threads :
          LET l == th[t]
              c == l.cpu
              d == cpufreq_cpu_data[c]
          IN  (/\ l.pc = "rm_begin" /\ th'[t] # l
               /\ d # NULL /\ pol[d].cpu # c)
              => /\ cpufreq_cpu_data' = [cpufreq_cpu_data EXCEPT ![c] = NULL]
                 /\ pol'[d].cpus = pol[d].cpus \ {c}
                 /\ pol'[d].st = pol[d].st
                 /\ pol'[d].cpu = pol[d].cpu
                 /\ pol'[d].user_policy = pol[d].user_policy
                 /\ pol'[d].min = pol[d].min /\ pol'[d].max = pol[d].max
                 /\ pol'[d].governor = pol[d].governor
                 /\ \A q \in PIDS \ {d} : pol'[q] = pol[q]
                 /\ pol[d].governor \in pol[d].running
                       => pol'[d].governor \in pol'[d].running]_vars

\* C31: no step of cpufreq_add_dev releases a policy rwsem the thread does
\* not hold (after a failed lock_policy_rwsem_write, at entry or in the
\* sibling join, nothing is held), and when cpufreq_add_dev returns, on any
\* path, the thread holds no policy rwsem.
C31_AddLockBalanced ==
    [][\A t \in Threads :
          LET l == th[t]
          IN  (/\ l.pc \in {"add_begin", "add_init", "add_join",
                            "add_interface", "add_after_set", "add_wait"}
               /\ th'[t] # l)
              => /\ "unlock_not_held" \notin errs'
                 /\ Len(th'[t].stk) < Len(l.stk)
                       => \A c \in CPUS :
                             /\ cpu_policy_rwsem'[c].w # t
                             /\ t \notin cpu_policy_rwsem'[c].r]_vars

\* C32: every governor event meets the governor in the state it is meant for:
\* the STOP of a governor switch, of the sibling join, of the sibling leave and
\* of the removal of a policy, and the LIMITS of __cpufreq_set_policy, go to a
\* governor that runs on the policy; a START goes to a governor that does not
\* run; and the LIMITS that follows the START of the sibling join and of the
\* sibling leave finds the governor running.
C32_GovernorStateMachine ==
    [][\A t \in Threads :
          LET l == th[t]
              moved == th'[t] # l
              Runs(p) == p.governor \in p.running
          IN  /\ (l.pc = "sp_gov" /\ moved /\ pol[l.data].governor # NoGov)
                  => Runs(pol[l.data])
              /\ (l.pc = "sp_start" /\ moved) => ~Runs(pol[l.data])
              /\ (l.pc = "add_join" /\ moved /\ l.lkret = 0)
                  => Runs(pol[l.managed]) /\ Runs(pol'[l.managed])
              /\ (/\ l.pc = "rm_begin" /\ moved
                  /\ cpufreq_cpu_data[l.cpu] # NULL
                  /\ pol[cpufreq_cpu_data[l.cpu]].cpu # l.cpu)
                  => /\ Runs(pol[cpufreq_cpu_data[l.cpu]])
                     /\ Runs(pol'[cpufreq_cpu_data[l.cpu]])
              /\ (l.pc = "rm_stop" /\ moved) => Runs(pol[l.data])]_vars

\* C33: no operation delivers a governor event, or makes another call that
\* may sleep, between taking and releasing cpufreq_driver_lock.
C33_NothingBlocksUnderDriverLock ==
    \A t \in Threads : th[t].atomic_calls = {}

\* C34: __cpufreq_set_policy returns the bounds conflict (-EINVAL at the
\* conflict check) exactly when the minimum it was asked for is above the
\* user's maximum or the maximum it was asked for is below the user's minimum,
\* whatever the PM QoS floor and ceiling are.
C34_ConflictIffRequestOutside ==
    [][\A t \in Threads :
          (th[t].pc = "sp_begin" /\ th'[t].pc # "sp_begin") =>
              LET l == th[t]
                  d == pol[l.data]
                  Outside == \/ l.new_policy.min > d.user_policy.max
                             \/ l.new_policy.max < d.user_policy.min
                  Conflict == th'[t].pc # "sp_gov" /\ th'[t].ret = "EINVAL"
              IN  Outside <=> Conflict]_vars

\* C34 witness: a request inside the user's bounds has passed the conflict
\* check and been committed while the PM QoS floor is above the user's
\* maximum.
C34_Witness ==
    \E t \in Threads :
        /\ th[t].pc = "sp_gov"
        /\ pm_qos.min > pol[th[t].data].user_policy.max
        /\ th[t].pmin <= pol[th[t].data].user_policy.max
        /\ th[t].pmax >= pol[th[t].data].user_policy.min

\* C35: cpufreq_set_gov changes only the governor: once a write to
\* scaling_min_freq or scaling_max_freq and a cpufreq_set_gov on the same
\* policy have both completed, the policy's min and max are those the bound
\* write asked for and stored as the user's bounds.
C35_BoundWriteSurvivesSetGov ==
    ( /\ th["u1"].op = "store" /\ th["u1"].pc = "done" /\ th["u1"].ret = "OK"
      /\ th["u2"].op = "set_gov" /\ th["u2"].pc = "done"
      /\ Cpu0Policy # NULL )
        => /\ pol[Cpu0Policy].min = pol[Cpu0Policy].user_policy.min
           /\ pol[Cpu0Policy].max = pol[Cpu0Policy].user_policy.max

\* C36: when the __cpufreq_set_policy call of a write to scaling_min_freq or
\* scaling_max_freq has failed, the policy's user bounds are, when
\* store_##file_name returns, the ones the write copied from the policy
\* before it parsed the value.
C36_FailedWriteKeepsUserBounds ==
    [][\A t \in Threads :
          ( /\ th[t].pc = "st_after" /\ th'[t].pc # "st_after"
            /\ th[t].ret # "OK" ) =>
              LET l == th[t]
              IN  /\ pol'[l.policy].user_policy.min = l.new_policy.umin
                  /\ pol'[l.policy].user_policy.max = l.new_policy.umax]_vars

\* C37: the kobject count of a policy that is bound to its owning CPU is 1,
\* plus one for every other CPU of its cpus, plus one for every reference a
\* thread took with cpufreq_cpu_get and has not put yet; no put meets a count
\* that is already zero.
C37_RefcountAccounts ==
    /\ "kref_underflow" \notin errs
    /\ \A p \in PIDS :
          ( /\ pol[p].st = "live" /\ pol[p].published
            /\ cpufreq_cpu_data[pol[p].cpu] = p ) =>
              LET Lookups(t) ==
                      Cardinality({i \in 1 .. Len(th[t].refs) :
                                      th[t].refs[i] = p})
                  Sum[S \in SUBSET Threads] ==
                      IF S = {} THEN 0
                      ELSE LET u == CHOOSE x \in S : TRUE
                           IN  Lookups(u) + Sum[S \ {u}]
              IN  pol[p].kobj =
                      1 + Cardinality(pol[p].cpus \ {pol[p].cpu}) + Sum[Threads]

\* C38: for every CPU bound to a policy, cpufreq_policy_cpu of that CPU is the
\* policy's owning CPU, and every unlock_policy_rwsem releases an rwsem its
\* caller holds: the one its lock_policy_rwsem took.
C38_LockResolution ==
    /\ [](\A c \in CPUS :
             cpufreq_cpu_data[c] # NULL =>
                 cpufreq_policy_cpu[c] = pol[cpufreq_cpu_data[c]].cpu)
    /\ []["unlock_not_held" \notin errs']_vars

\* C39: the step of cpufreq_add_dev that folds a CPU into the policy of an
\* already managed sibling leaves that policy's governor, user bounds, min,
\* max, cur and owning CPU as they were; the provisional policy, with what
\* was restored into it from cpufreq_policy_save, is freed and the CPU is
\* bound to the managed policy.
C39_JoinKeepsManagedPolicy ==
    [][\A t \in Threads :
          ( /\ th[t].pc = "add_join" /\ th'[t].pc # "add_join"
            /\ th[t].lkret = 0 ) =>
              LET l == th[t]
                  m == l.managed
              IN  /\ pol'[m].governor = pol[m].governor
                  /\ pol'[m].user_policy = pol[m].user_policy
                  /\ pol'[m].min = pol[m].min
                  /\ pol'[m].max = pol[m].max
                  /\ pol'[m].cur = pol[m].cur
                  /\ pol'[m].cpu = pol[m].cpu
                  /\ pol'[l.policy].st # "live"
                  /\ cpufreq_cpu_data'[l.cpu] = m]_vars

\* C39 witness: CPU 0 has come online again and joined the policy of its
\* sibling, whose governor is not the one saved for CPU 0 when it went down
\* and restored into the provisional policy.
C39_Witness ==
    LET l == th["hp"]
        p == cpufreq_cpu_data[l.arg]
    IN  /\ l.op = "cpu_up" /\ l.pc = "done" /\ l.ret = "OK"
        /\ p # NULL
        /\ pol[p].cpu # l.arg
        /\ cpufreq_policy_save[l.arg].gov \in Governors
        /\ cpufreq_policy_save[l.arg].gov # pol[p].governor

\* C40: a policy whose storage has been freed has no work item queued
\* (policy->update is neither pending nor about to run), and handle_update
\* never starts on a policy that is not live.
C40_NoWorkOnFreedPolicy ==
    /\ [](\A p \in PIDS : pol[p].st # "live" => ~pol[p].update)
    /\ [][\A p \in PIDS :
             (pol[p].update /\ ~pol'[p].update) => pol[p].st = "live"]_vars

====
